---------------------------- MODULE Spec2Model ----------------------------
(***************************************************************************)
(* FASAL crop recommendation: the ranking and financial functions of       *)
(* src/data/mockData.ts, the ai-crop-recommendations edge function, the    *)
(* rule-based scorer of integrations/cropRecommendation/service.ts and     *)
(* the fetch / effect flow of the Results screen.                          *)
(*                                                                         *)
(* JavaScript numbers are modelled as exact rationals [n, d] with d > 0    *)
(* and gcd(n, d) = 1.  d = 0 encodes the non-finite values: n = 1 is       *)
(* Infinity, n = -1 is -Infinity and n = 0 is NaN.  The record with        *)
(* d = -1 is the JavaScript value undefined.  Binary rounding of IEEE      *)
(* doubles is not modelled: every finite result is the exact quotient.     *)
(* JavaScript strings whose letter case matters are sequences of           *)
(* one-character strings.                                                  *)
(***************************************************************************)
EXTENDS Integers, Sequences, FiniteSets, TLC

VARIABLES
    \* ---- one call of calculateRecommendations / ai-crop-recommendations
    called,              \* which call this behaviour makes, and how far it is
    month,               \* new Date().getMonth() + 1
    pincode,
    farmArea,
    areaUnit,
    previousCrops,
    aiResponse,          \* the JSON array the language model answered with
    recommendations,     \* what calculateRecommendations returned
    finalRecommendations, \* what ai-crop-recommendations returned
    callSeason,          \* the current season the call worked out
    \* ---- one call of normalizeParameters / calculateCropSuitabilityScore
    sStage,              \* how far the scoring call is
    sCrop,               \* the crop scored
    sParams,             \* the caller's CropRecommendationParams
    normalizedParams,    \* what normalizeParameters returned
    scoredParams,        \* the params calculateCropSuitabilityScore was given
    suitability,         \* its sub-scores, its terms and the score returned
    \* ---- the Results screen
    variant,             \* which Results component of the file is mounted
    mounted,             \* the mount effects have run
    fetchStatus,         \* per fetch: idle, pending, ok or failed
    locationData,
    weatherData,
    soilData,
    effectPending,       \* a render changed a dependency of the second effect
    aiCalls,             \* calls of fetchAIRecommendations so far
    aiInFlight,          \* calls awaiting getCropRecommendations
    recommendationsLoading,
    aiRecommendations,
    aiSource,            \* which branch set aiRecommendations
    \* ---- one call of getCropRecommendations
    gStage,              \* how far the call is
    gParams,             \* params, with its season property
    gAvailable,          \* availableCrops
    gPincode,            \* whether the pincode argument was passed
    gSoil,               \* what get-soil-data answers if it is asked
    gLabelDraw,          \* the Math.random() of predictCrop
    gJitter,             \* which values the Math.random() of the map returns
    gDefaultR,           \* the Math.random() of getDefaultCrops
    gNormalized,         \* normalizedParams, as handed to the model and scorer
    gSoilAsked,          \* whether getModelPredictions called fetchSoilData
    gComplete,           \* completeParams, the values the model was given
    gPrediction,         \* modelPredictedCrop ('' when there is none)
    gScored,             \* per crop, the factors and scores of the map
    gSorted,             \* sortedCrops
    gResult,             \* the list returned
    \* ---- the Index page and its Landing form
    currentView,         \* Index: 'landing' or 'results'
    formData,            \* Index: the submitted form data, or null
    step,                \* Landing: 1 (pincode) or 2 (farm details)
    landingForm,         \* Landing: its formData state
    locationName,        \* Landing: the district and state shown in step 2
    submissions,         \* how many times the form was submitted so far
    \* ---- one request to the get-location function
    locStage,            \* "received" or "answered"
    locRequest,          \* the request, and what its collaborators will answer
    locFetches,          \* the external requests made, in order
    locResponse,         \* the Response returned
    \* ---- one call of formDataToCropParams
    pStage,              \* "called" or "returned"
    pForm,               \* formData.rainfall
    pWeather,            \* weatherData
    pSoil,               \* soilData
    pLocation,           \* locationData
    pMonth,              \* new Date().getMonth() + 1
    pDraws,              \* the Math.random() of each addVariation call
    pResult,             \* the parameters returned
    \* ---- the chat of the Results screen
    showChatbot,
    chatMessages,
    chatInput,
    chatLoading,
    chatPending          \* the message whose invoke has not settled, or <<>>

recVars == <<called, month, pincode, farmArea, areaUnit, previousCrops,
             aiResponse, recommendations, finalRecommendations, callSeason>>

scoreVars == <<sStage, sCrop, sParams, normalizedParams, scoredParams,
               suitability>>

uiVars == <<variant, mounted, fetchStatus, locationData, weatherData,
            soilData, effectPending, aiCalls, aiInFlight,
            recommendationsLoading, aiRecommendations, aiSource>>

getVars == <<gStage, gParams, gAvailable, gPincode, gSoil, gLabelDraw, gJitter,
             gDefaultR, gNormalized, gSoilAsked, gComplete, gPrediction,
             gScored, gSorted, gResult>>

formVars == <<currentView, formData, step, landingForm, locationName,
              submissions>>

locVars == <<locStage, locRequest, locFetches, locResponse>>

paramVars == <<pStage, pForm, pWeather, pSoil, pLocation, pMonth, pDraws,
               pResult>>

chatVars == <<showChatbot, chatMessages, chatInput, chatLoading, chatPending>>

\* the parts of the application outside the recommendation functions
appVars == <<formVars, locVars, paramVars, chatVars>>

\* the recommendation functions and the Results screen
coreVars == <<recVars, scoreVars, uiVars, getVars>>

vars == <<recVars, scoreVars, uiVars, getVars, appVars>>

-----------------------------------------------------------------------------
(* Bounds of the model *)

\* farmArea is drawn from 0.1 and the halves 0.5, 1, ... up to MaxAreaHalves / 2
MaxAreaHalves == 4
\* longest previousCrops list drawn
MaxPrev == 2
\* longest answer of the language model drawn
MaxAiCrops == 2
\* out-of-range values drawn per dimension: k quarter-ranges above the maximum
OutSteps == 1

-----------------------------------------------------------------------------
(* JavaScript numbers *)

RECURSIVE GCD(_, _)
GCD(a, b) == IF b = 0 THEN a ELSE GCD(b, a % b)

AbsInt(i) == IF i < 0 THEN -i ELSE i

SignInt(i) == IF i < 0 THEN -1 ELSE IF i > 0 THEN 1 ELSE 0

NaN == [n |-> 0, d |-> 0]
PosInf == [n |-> 1, d |-> 0]
NegInf == [n |-> -1, d |-> 0]
Undefined == [n |-> 0, d |-> -1]

\* the number n / d, d # 0, in lowest terms
Rat(n, d) ==
    LET g == GCD(AbsInt(n), AbsInt(d))
        s == IF d < 0 THEN -1 ELSE 1
    IN  [n |-> s * (n \div g), d |-> s * (d \div g)]

Num(i) == [n |-> i, d |-> 1]

Zero == Num(0)
One == Num(1)
Half == Rat(1, 2)
Hundred == Num(100)

\* ToNumber: undefined converts to NaN in arithmetic
ToNumber(x) == IF x.d < 0 THEN NaN ELSE x

IsNaN(x) == ToNumber(x) = NaN
IsFinite(x) == x.d > 0
IsInf(x) == x.d = 0 /\ x.n # 0

Neg(x) == LET a == ToNumber(x) IN [n |-> -a.n, d |-> a.d]

Mul(x, y) ==
    LET a == ToNumber(x)
        b == ToNumber(y)
    IN  IF IsNaN(a) \/ IsNaN(b) THEN NaN
        ELSE IF IsInf(a) \/ IsInf(b)
             THEN IF a.n = 0 \/ b.n = 0 THEN NaN
                  ELSE [n |-> SignInt(a.n) * SignInt(b.n), d |-> 0]
        ELSE LET g1 == GCD(AbsInt(a.n), b.d)
                 g2 == GCD(AbsInt(b.n), a.d)
             IN  [n |-> (a.n \div g1) * (b.n \div g2),
                  d |-> (a.d \div g2) * (b.d \div g1)]

Div(x, y) ==
    LET a == ToNumber(x)
        b == ToNumber(y)
    IN  IF IsNaN(a) \/ IsNaN(b) THEN NaN
        ELSE IF IsInf(b) THEN (IF IsInf(a) THEN NaN ELSE Zero)
        ELSE IF b.n = 0
             THEN IF a.n = 0 THEN NaN ELSE [n |-> SignInt(a.n), d |-> 0]
        ELSE Mul(a, [n |-> SignInt(b.n) * b.d, d |-> AbsInt(b.n)])

Add(x, y) ==
    LET a == ToNumber(x)
        b == ToNumber(y)
    IN  IF IsNaN(a) \/ IsNaN(b) THEN NaN
        ELSE IF IsInf(a) THEN (IF IsInf(b) /\ b.n # a.n THEN NaN ELSE a)
        ELSE IF IsInf(b) THEN b
        ELSE LET l == (a.d \div GCD(a.d, b.d)) * b.d
             IN  Rat(a.n * (l \div a.d) + b.n * (l \div b.d), l)

Sub(x, y) == Add(x, Neg(y))

\* x < y; false as soon as one side is NaN
Lt(x, y) ==
    LET a == ToNumber(x)
        b == ToNumber(y)
    IN  IF IsNaN(a) \/ IsNaN(b) THEN FALSE
        ELSE IF IsInf(a) \/ IsInf(b)
             THEN a # b /\ (a = NegInf \/ b = PosInf)
        ELSE LET l == (a.d \div GCD(a.d, b.d)) * b.d
             IN  a.n * (l \div a.d) < b.n * (l \div b.d)

Gt(x, y) == Lt(y, x)
Le(x, y) == Lt(x, y) \/ (~IsNaN(x) /\ ToNumber(x) = ToNumber(y))
Ge(x, y) == Le(y, x)

MathAbs(x) == LET a == ToNumber(x) IN [n |-> AbsInt(a.n), d |-> a.d]

MathMax(x, y) ==
    IF IsNaN(x) \/ IsNaN(y) THEN NaN ELSE IF Lt(x, y) THEN y ELSE x

MathMin(x, y) ==
    IF IsNaN(x) \/ IsNaN(y) THEN NaN ELSE IF Lt(y, x) THEN y ELSE x

\* Math.round: the nearest integer, a tie going up
MathRound(x) ==
    LET a == ToNumber(x)
    IN  IF ~IsFinite(a) THEN a
        ELSE Num((2 * a.n + a.d) \div (2 * a.d))

\* parseFloat(x.toFixed(1)): the nearest tenth, a tie going away from zero
ToFixed1(x) ==
    LET a == ToNumber(x)
    IN  IF ~IsFinite(a) THEN a
        ELSE LET m == Mul(MathAbs(a), Num(10))
                 t == (2 * m.n + m.d) \div (2 * m.d)
             IN  Rat(SignInt(a.n) * t, 10)

-----------------------------------------------------------------------------
(* JavaScript strings *)

Upper == <<"A", "B", "C", "D", "E", "F", "G", "H", "I", "J", "K", "L", "M",
           "N", "O", "P", "Q", "R", "S", "T", "U", "V", "W", "X", "Y", "Z">>
Lower == <<"a", "b", "c", "d", "e", "f", "g", "h", "i", "j", "k", "l", "m",
           "n", "o", "p", "q", "r", "s", "t", "u", "v", "w", "x", "y", "z">>

LowerChar(c) ==
    IF \E i \in 1..26 : Upper[i] = c
    THEN Lower[CHOOSE i \in 1..26 : Upper[i] = c]
    ELSE c

\* String.prototype.toLowerCase
ToLowerCase(s) == [i \in 1..Len(s) |-> LowerChar(s[i])]

\* String.prototype.includes: t occurs in s
StrIncludes(s, t) ==
    \E i \in 0..(Len(s) - Len(t)) : SubSeq(s, i + 1, i + Len(t)) = t

\* Array.prototype.includes
ArrIncludes(arr, x) == \E i \in 1..Len(arr) : arr[i] = x

-----------------------------------------------------------------------------
(* src/data/mockData.ts: the reference data *)

Wheat ==
    [id |-> 1,
     name_en |-> <<"W", "h", "e", "a", "t">>,
     name_hi |-> "hi:Wheat",
     season |-> "rabi",
     soil_ph_min |-> Rat(60, 10),
     soil_ph_max |-> Rat(75, 10),
     temperature_min |-> Num(15),
     temperature_max |-> Num(25),
     rainfall_min |-> Num(300),
     rainfall_max |-> Num(800),
     investment_per_acre |-> Num(25000),
     expected_yield_per_acre |-> Num(20),
     roi_percentage |-> Num(35),
     current_price_per_kg |-> Rat(21, 1),
     growing_states |->
        <<<<"P", "u", "n", "j", "a", "b">>,
          <<"H", "a", "r", "y", "a", "n", "a">>,
          <<"U", "P">>,
          <<"M", "P">>,
          <<"R", "a", "j", "a", "s", "t", "h", "a", "n">>>>,
     image |-> "img:Wheat",
     description_en |-> "en:Wheat",
     description_hi |-> "hi:Wheat"]

Rice ==
    [id |-> 2,
     name_en |-> <<"R", "i", "c", "e">>,
     name_hi |-> "hi:Rice",
     season |-> "kharif",
     soil_ph_min |-> Rat(55, 10),
     soil_ph_max |-> Rat(70, 10),
     temperature_min |-> Num(20),
     temperature_max |-> Num(35),
     rainfall_min |-> Num(1000),
     rainfall_max |-> Num(2000),
     investment_per_acre |-> Num(30000),
     expected_yield_per_acre |-> Num(25),
     roi_percentage |-> Num(40),
     current_price_per_kg |-> Rat(20, 1),
     growing_states |->
        <<<<"W", "e", "s", "t", " ", "B", "e", "n", "g", "a", "l">>,
          <<"P", "u", "n", "j", "a", "b">>,
          <<"H", "a", "r", "y", "a", "n", "a">>,
          <<"A", "P">>,
          <<"T", "a", "m", "i", "l", " ", "N", "a", "d", "u">>>>,
     image |-> "img:Rice",
     description_en |-> "en:Rice",
     description_hi |-> "hi:Rice"]

Sugarcane ==
    [id |-> 3,
     name_en |-> <<"S", "u", "g", "a", "r", "c", "a", "n", "e">>,
     name_hi |-> "hi:Sugarcane",
     season |-> "kharif",
     soil_ph_min |-> Rat(60, 10),
     soil_ph_max |-> Rat(80, 10),
     temperature_min |-> Num(20),
     temperature_max |-> Num(40),
     rainfall_min |-> Num(800),
     rainfall_max |-> Num(1200),
     investment_per_acre |-> Num(50000),
     expected_yield_per_acre |-> Num(400),
     roi_percentage |-> Num(45),
     current_price_per_kg |-> Rat(35, 10),
     growing_states |->
        <<<<"U", "P">>,
          <<"M", "a", "h", "a", "r", "a", "s", "h", "t", "r", "a">>,
          <<"K", "a", "r", "n", "a", "t", "a", "k", "a">>,
          <<"T", "a", "m", "i", "l", " ", "N", "a", "d", "u">>,
          <<"P", "u", "n", "j", "a", "b">>>>,
     image |-> "img:Sugarcane",
     description_en |-> "en:Sugarcane",
     description_hi |-> "hi:Sugarcane"]

Cotton ==
    [id |-> 4,
     name_en |-> <<"C", "o", "t", "t", "o", "n">>,
     name_hi |-> "hi:Cotton",
     season |-> "kharif",
     soil_ph_min |-> Rat(60, 10),
     soil_ph_max |-> Rat(80, 10),
     temperature_min |-> Num(20),
     temperature_max |-> Num(35),
     rainfall_min |-> Num(600),
     rainfall_max |-> Num(1000),
     investment_per_acre |-> Num(40000),
     expected_yield_per_acre |-> Num(15),
     roi_percentage |-> Num(50),
     current_price_per_kg |-> Rat(60, 1),
     growing_states |->
        <<<<"G", "u", "j", "a", "r", "a", "t">>,
          <<"M", "a", "h", "a", "r", "a", "s", "h", "t", "r", "a">>,
          <<"T", "e", "l", "a", "n", "g", "a", "n", "a">>,
          <<"A", "P">>,
          <<"P", "u", "n", "j", "a", "b">>>>,
     image |-> "img:Cotton",
     description_en |-> "en:Cotton",
     description_hi |-> "hi:Cotton"]

Soybean ==
    [id |-> 5,
     name_en |-> <<"S", "o", "y", "b", "e", "a", "n">>,
     name_hi |-> "hi:Soybean",
     season |-> "kharif",
     soil_ph_min |-> Rat(60, 10),
     soil_ph_max |-> Rat(75, 10),
     temperature_min |-> Num(20),
     temperature_max |-> Num(30),
     rainfall_min |-> Num(600),
     rainfall_max |-> Num(1000),
     investment_per_acre |-> Num(20000),
     expected_yield_per_acre |-> Num(12),
     roi_percentage |-> Num(30),
     current_price_per_kg |-> Rat(40, 1),
     growing_states |->
        <<<<"M", "P">>,
          <<"M", "a", "h", "a", "r", "a", "s", "h", "t", "r", "a">>,
          <<"R", "a", "j", "a", "s", "t", "h", "a", "n">>,
          <<"K", "a", "r", "n", "a", "t", "a", "k", "a">>>>,
     image |-> "img:Soybean",
     description_en |-> "en:Soybean",
     description_hi |-> "hi:Soybean"]

mockCrops == <<Wheat, Rice, Sugarcane, Cotton, Soybean>>

locationMap ==
    <<[pincode |-> "110001", district |-> "New Delhi", state |-> <<"D", "e", "l", "h", "i">>],
      [pincode |-> "400001", district |-> "Mumbai", state |-> <<"M", "a", "h", "a", "r", "a", "s", "h", "t", "r", "a">>],
      [pincode |-> "500001", district |-> "Hyderabad", state |-> <<"T", "e", "l", "a", "n", "g", "a", "n", "a">>],
      [pincode |-> "700001", district |-> "Kolkata", state |-> <<"W", "e", "s", "t", " ", "B", "e", "n", "g", "a", "l">>],
      [pincode |-> "600001", district |-> "Chennai", state |-> <<"T", "a", "m", "i", "l", " ", "N", "a", "d", "u">>],
      [pincode |-> "560001", district |-> "Bangalore", state |-> <<"K", "a", "r", "n", "a", "t", "a", "k", "a">>],
      [pincode |-> "141001", district |-> "Ludhiana", state |-> <<"P", "u", "n", "j", "a", "b">>],
      [pincode |-> "302001", district |-> "Jaipur", state |-> <<"R", "a", "j", "a", "s", "t", "h", "a", "n">>],
      [pincode |-> "380001", district |-> "Ahmedabad", state |-> <<"G", "u", "j", "a", "r", "a", "t">>],
      [pincode |-> "411001", district |-> "Pune", state |-> <<"M", "a", "h", "a", "r", "a", "s", "h", "t", "r", "a">>]>>


\* getLocationFromPincode: the table's entry, or the Unknown location
getLocationFromPincode(pin) ==
    IF \E i \in 1..Len(locationMap) : locationMap[i].pincode = pin
    THEN LET e == locationMap[CHOOSE i \in 1..Len(locationMap) :
                                 locationMap[i].pincode = pin]
         IN  [district |-> e.district, state |-> e.state]
    ELSE [district |-> "Unknown", state |-> <<"U", "n", "k", "n", "o", "w", "n">>]

-----------------------------------------------------------------------------
(* src/data/mockData.ts: calculateRecommendations *)

\* object spread {...r1, ...r2}: the fields of r2 win
Merge(r1, r2) ==
    [f \in (DOMAIN r1) \cup (DOMAIN r2) |->
        IF f \in DOMAIN r2 THEN r2[f] ELSE r1[f]]

\* a slice that stops one element early
Slice_OffByOne(s, from, to) ==
    SubSeq(s, from + 1, IF to - 1 < Len(s) THEN to - 1 ELSE Len(s))

\* Array.prototype.slice(from, to) with 0 <= from <= to
Slice(s, from, to) ==
    SubSeq(s, from + 1, IF to < Len(s) THEN to ELSE Len(s))

getCurrentSeason(m) ==
    IF m >= 4 /\ m <= 9 THEN "kharif"
    ELSE IF m >= 10 \/ m <= 3 THEN "rabi"
    ELSE "zaid"

HectareFactor == Rat(247, 100)

\* a conversion that divides by the factor instead of multiplying
AreaInAcres_Divides(fa, unit) ==
    IF unit = "hectares" THEN Div(fa, HectareFactor) ELSE fa

\* areaUnit === 'hectares' ? farmArea * 2.47 : farmArea
AreaInAcres(fa, unit) ==
    IF unit = "hectares" THEN Mul(fa, HectareFactor) ELSE fa

hasGoodLocation(crop, location) ==
    \E i \in 1..Len(crop.growing_states) :
        \/ StrIncludes(ToLowerCase(crop.growing_states[i]),
                       ToLowerCase(location.state))
        \/ StrIncludes(ToLowerCase(location.state),
                       ToLowerCase(crop.growing_states[i]))

\* the season / location filter
SuitableCrops(crops, pin, m) ==
    LET location == getLocationFromPincode(pin)
        currentSeason == getCurrentSeason(m)
        Keep(crop) ==
            crop.season = currentSeason \/ hasGoodLocation(crop, location)
    IN  SelectSeq(crops, Keep)

\* the crop rotation filter
RotationFilter(crops, prev) ==
    LET Keep(crop) == ~ArrIncludes(prev, ToLowerCase(crop.name_en))
    IN  SelectSeq(crops, Keep)

\* a record whose ROI is taken over the return instead of the investment
WithFinancials_RoiOverReturn(crop, areaInAcres) ==
    LET yieldValue ==
            Mul(Mul(crop.expected_yield_per_acre, areaInAcres),
                crop.current_price_per_kg)
        invested == Mul(crop.investment_per_acre, areaInAcres)
    IN  Merge(crop,
              [totalInvestment |-> invested,
               expectedReturn |-> yieldValue,
               profitAmount |-> Sub(yieldValue, invested),
               actualROI |->
                   Mul(Div(Sub(yieldValue, invested), yieldValue), Hundred)])

\* the record calculateRecommendations builds for one crop
WithFinancials(crop, areaInAcres) ==
    LET yieldValue ==
            Mul(Mul(crop.expected_yield_per_acre, areaInAcres),
                crop.current_price_per_kg)
        invested == Mul(crop.investment_per_acre, areaInAcres)
    IN  Merge(crop,
              [totalInvestment |-> invested,
               expectedReturn |-> yieldValue,
               profitAmount |-> Sub(yieldValue, invested),
               actualROI |->
                   Mul(Div(Sub(yieldValue, invested), invested), Hundred)])

\* where a record goes in a list already sorted by (b.actualROI - a.actualROI):
\* before the first record it is strictly greater than
InsertByROI(sorted, x) ==
    LET before == {i \in 1..Len(sorted) :
                      Lt(sorted[i].actualROI, x.actualROI)}
        p == IF before = {} THEN Len(sorted) + 1
             ELSE CHOOSE i \in before : \A j \in before : i <= j
    IN  SubSeq(sorted, 1, p - 1) \o <<x>> \o SubSeq(sorted, p, Len(sorted))

\* Array.prototype.sort((a, b) => b.actualROI - a.actualROI): stable
RECURSIVE SortByROI(_)
SortByROI(s) ==
    IF s = <<>> THEN <<>>
    ELSE InsertByROI(SortByROI(SubSeq(s, 1, Len(s) - 1)), s[Len(s)])

TopN == 5

calculateRecommendations(pin, fa, prev, unit, m) ==
    LET areaInAcres == AreaInAcres(fa, unit)
        suitableCrops == RotationFilter(SuitableCrops(mockCrops, pin, m), prev)
        recs == [i \in 1..Len(suitableCrops) |->
                    WithFinancials(suitableCrops[i], areaInAcres)]
    IN  Slice(SortByROI(recs), 0, TopN)

-----------------------------------------------------------------------------
(* supabase/functions/ai-crop-recommendations/index.ts *)

\* the season the edge function puts in its prompt and its answer
AiSeason(m) ==
    IF m >= 10 \/ m <= 3 THEN "rabi"
    ELSE IF m >= 4 /\ m <= 6 THEN "zaid"
    ELSE "kharif"

FallbackIds == <<"crop_1", "crop_2", "crop_3", "crop_4", "crop_5">>

\* areaUnit === 'hectares' ? farmArea * 2.47 : farmArea, as written in the map
AiAreaScale(fa, unit) ==
    IF unit = "hectares" THEN Mul(fa, HectareFactor) ELSE fa

\* one element of validatedRecommendations
ValidatedRecommendation(crop, index, fa, unit) ==
    LET profit == Sub(crop.expectedReturn, crop.totalInvestment)
        roi == Mul(Div(profit, crop.totalInvestment), Hundred)
    IN  Merge(crop,
              [id |-> IF crop.id = "" THEN FallbackIds[index] ELSE crop.id,
               profitAmount |-> profit,
               actualROI |-> ToFixed1(roi),
               totalInvestment |->
                   MathRound(Mul(crop.totalInvestment, AiAreaScale(fa, unit))),
               expectedReturn |->
                   MathRound(Mul(crop.expectedReturn, AiAreaScale(fa, unit)))])

\* .filter(crop => crop.profitAmount > 0)
ProfitableOnly(crops) ==
    LET Keep(crop) == Gt(crop.profitAmount, Zero)
    IN  SelectSeq(crops, Keep)

\* the scaled record returned without the recalculation
FinalRecommendation_NoRecalc(crop) == crop

\* one element of finalRecommendations: recalculated after scaling
FinalRecommendation(crop) ==
    Merge(crop,
          [profitAmount |-> Sub(crop.expectedReturn, crop.totalInvestment),
           actualROI |->
               ToFixed1(Mul(Div(Sub(crop.expectedReturn, crop.totalInvestment),
                                crop.totalInvestment), Hundred))])

AiFinalRecommendations(answer, fa, unit) ==
    LET validated ==
            ProfitableOnly([i \in 1..Len(answer) |->
                ValidatedRecommendation(answer[i], i, fa, unit)])
    IN  [i \in 1..Len(validated) |-> FinalRecommendation(validated[i])]

-----------------------------------------------------------------------------
(* The inputs drawn for one call *)

Pincodes == {"141001", "400001", "999999"}

FarmAreas == {Rat(1, 10)} \cup {Rat(k, 2) : k \in 1..MaxAreaHalves}

AreaUnits == {"acres", "hectares"}

\* the Landing form offers lower-case values; a caller may pass any case
PrevNames ==
    {<<"w", "h", "e", "a", "t">>, <<"W", "h", "e", "a", "t">>,
     <<"r", "i", "c", "e">>, <<"C", "O", "T", "T", "O", "N">>}

RECURSIVE SeqsUpTo(_, _)
\* the lists of at most k distinct elements of S
SeqsUpTo(S, k) ==
    IF k = 0 THEN {<<>>}
    ELSE LET shorter == SeqsUpTo(S, k - 1)
             ext == {Append(s, x) : s \in {t \in shorter : Len(t) = k - 1},
                                    x \in S}
         IN  shorter \cup
             {s \in ext : \A i, j \in 1..Len(s) : i < j => s[i] # s[j]}

\* what the language model may answer for one crop (per-acre figures)
AiCrop(id, ti, er, profit, roi) ==
    [id |-> id, name_en |-> id, season |-> "kharif",
     totalInvestment |-> Num(ti), expectedReturn |-> Num(er),
     profitAmount |-> Num(profit), actualROI |-> roi]

AiCrops ==
    {AiCrop("crop1", 45000, 75000, 30000, Rat(667, 10)),
     AiCrop("", 20000, 20001, 1, Rat(1, 10)),
     AiCrop("crop3", 50000, 40000, 10000, Num(25)),
     AiCrop("crop4", 45001, 90000, 45000, Num(100))}

NoAiResponse == [ok |-> FALSE, recommendations |-> <<>>]

AiResponses ==
    {NoAiResponse} \cup
    {[ok |-> TRUE, recommendations |-> r] : r \in SeqsUpTo(AiCrops, MaxAiCrops)}

-----------------------------------------------------------------------------
(* The parts of the state a behaviour does not use stay as constructed *)

NoParams ==
    [nitrogen |-> Undefined, phosphorus |-> Undefined, potassium |-> Undefined,
     temperature |-> Undefined, humidity |-> Undefined, ph |-> Undefined,
     rainfall |-> Undefined]

NoSuitability ==
    [phScore |-> Undefined, tempScore |-> Undefined, rainScore |-> Undefined,
     nScore |-> Undefined, pScore |-> Undefined, kScore |-> Undefined,
     phTerm |-> Undefined, tempTerm |-> Undefined, rainTerm |-> Undefined,
     nutrientTerm |-> Undefined, score |-> Undefined]

IdleScore ==
    /\ sStage = "idle"
    /\ sCrop = Wheat
    /\ sParams = NoParams
    /\ normalizedParams = NoParams
    /\ scoredParams = NoParams
    /\ suitability = NoSuitability

Fetches == {"location", "weather", "soil"}

\* the Results screen as constructed: useState initial values, no effect run
IdleUi ==
    /\ mounted = FALSE
    /\ fetchStatus = [f \in Fetches |-> "idle"]
    /\ locationData = "null"
    /\ weatherData = "null"
    /\ soilData = "null"
    /\ effectPending = FALSE
    /\ aiCalls = 0
    /\ aiInFlight = 0
    /\ recommendationsLoading = TRUE
    /\ aiRecommendations = <<>>
    /\ aiSource = "none"

IdleRecommend ==
    /\ called = "idle"
    /\ month = 1
    /\ pincode = ""
    /\ farmArea = One
    /\ areaUnit = "acres"
    /\ previousCrops = <<>>
    /\ aiResponse = NoAiResponse
    /\ recommendations = <<>>
    /\ finalRecommendations = <<>>
    /\ callSeason = ""

\* params.season missing: undefined and '' are both falsy for `!season`
NoSeason == <<>>

\* no crop name: the initial modelPredictedCrop
NoPrediction == <<>>

NoGetParams == Merge(NoParams, [season |-> NoSeason])

IdleGet ==
    /\ gStage = "idle"
    /\ gParams = NoGetParams
    /\ gAvailable = <<>>
    /\ gPincode = FALSE
    /\ gSoil = "none"
    /\ gLabelDraw = Zero
    /\ gJitter = "low"
    /\ gDefaultR = Zero
    /\ gNormalized = NoGetParams
    /\ gSoilAsked = FALSE
    /\ gComplete = NoParams
    /\ gPrediction = NoPrediction
    /\ gScored = <<>>
    /\ gSorted = <<>>
    /\ gResult = <<>>

\* null, where a record may stand
Null == [null |-> TRUE]

\* Landing's useState initial value
InitialLandingForm ==
    [pincode |-> <<>>, farmArea |-> One, areaUnit |-> "acres",
     previousCrops |-> <<>>]

\* locationName is `${district}, ${state}`, kept as its two parts; '' at first
NoLocationName == [district |-> "", state |-> <<>>]

\* Index and Landing as constructed
IdleForm ==
    /\ currentView = "landing"
    /\ formData = Null
    /\ step = 1
    /\ landingForm = InitialLandingForm
    /\ locationName = NoLocationName
    /\ submissions = 0

\* no request to get-location
IdleLoc ==
    /\ locStage = "idle"
    /\ locRequest = <<>>
    /\ locFetches = <<>>
    /\ locResponse = <<>>

\* no call of formDataToCropParams
IdleParam ==
    /\ pStage = "idle"
    /\ pForm = <<>>
    /\ pWeather = <<>>
    /\ pSoil = <<>>
    /\ pLocation = <<>>
    /\ pMonth = 1
    /\ pDraws = <<>>
    /\ pResult = <<>>

\* Results' chat as constructed
IdleChat ==
    /\ showChatbot = FALSE
    /\ chatMessages = <<>>
    /\ chatInput = <<>>
    /\ chatLoading = FALSE
    /\ chatPending = <<>>

IdleApp == IdleForm /\ IdleLoc /\ IdleParam /\ IdleChat

-----------------------------------------------------------------------------
(* One request to calculateRecommendations or to ai-crop-recommendations *)

InitRecommend ==
    /\ variant = "ml"
    /\ IdleUi
    /\ IdleApp
    /\ IdleGet
    /\ IdleScore
    /\ month \in 1..12
    /\ farmArea \in FarmAreas
    /\ areaUnit \in AreaUnits
    /\ recommendations = <<>>
    /\ finalRecommendations = <<>>
    /\ callSeason = ""
    /\ \/ /\ called = "calc-request"
          /\ pincode \in Pincodes
          /\ previousCrops \in SeqsUpTo(PrevNames, MaxPrev)
          /\ aiResponse = NoAiResponse
       \/ /\ called = "ai-request"
          /\ pincode = "141001"
          /\ previousCrops = <<>>
          /\ aiResponse \in AiResponses

\* Results calls calculateRecommendations(pincode, farmArea, previousCrops, areaUnit)
CalculateRecommendations ==
    /\ called = "calc-request"
    /\ recommendations' =
           calculateRecommendations(pincode, farmArea, previousCrops,
                                    areaUnit, month)
    /\ callSeason' = getCurrentSeason(month)
    /\ called' = "calc-done"
    /\ UNCHANGED <<month, pincode, farmArea, areaUnit, previousCrops,
                   aiResponse, finalRecommendations>>

\* the edge function answers 200 with finalRecommendations
ServeAiRecommendations ==
    /\ called = "ai-request"
    /\ aiResponse.ok
    /\ finalRecommendations' =
           AiFinalRecommendations(aiResponse.recommendations, farmArea, areaUnit)
    /\ callSeason' = AiSeason(month)
    /\ called' = "ai-done"
    /\ UNCHANGED <<month, pincode, farmArea, areaUnit, previousCrops,
                   aiResponse, recommendations>>

\* no API key (thrown before the season is worked out), an OpenAI error or an
\* unparseable answer (thrown after it): 500 with an error
ServeAiError ==
    /\ called = "ai-request"
    /\ ~aiResponse.ok
    /\ callSeason' \in {"", AiSeason(month)}
    /\ called' = "ai-error"
    /\ UNCHANGED <<month, pincode, farmArea, areaUnit, previousCrops,
                   aiResponse, recommendations, finalRecommendations>>

NextRecommend ==
    \/ CalculateRecommendations /\ UNCHANGED <<scoreVars, uiVars, getVars, appVars>>
    \/ ServeAiRecommendations /\ UNCHANGED <<scoreVars, uiVars, getVars, appVars>>
    \/ ServeAiError /\ UNCHANGED <<scoreVars, uiVars, getVars, appVars>>

SpecRecommend == InitRecommend /\ [][NextRecommend]_vars

-----------------------------------------------------------------------------
(* Claims about calculateRecommendations and ai-crop-recommendations *)

\* C1: every record calculateRecommendations returns has
\* profitAmount = expectedReturn - totalInvestment and
\* actualROI = profitAmount / totalInvestment * 100, for every farmArea > 0
\* and either area unit.
C1_FinancialIdentity ==
    called = "calc-done" =>
        \A i \in 1..Len(recommendations) :
            LET r == recommendations[i]
            IN  /\ r.profitAmount = Sub(r.expectedReturn, r.totalInvestment)
                /\ r.actualROI =
                       Mul(Div(r.profitAmount, r.totalInvestment), Hundred)

C1_Witness ==
    /\ called = "calc-done"
    /\ areaUnit = "hectares"
    /\ farmArea = Rat(3, 2)
    /\ Len(recommendations) = 5

C3_RotationExcludes ==
    called = "calc-done" =>
        \A i \in 1..Len(recommendations) :
            \A j \in 1..Len(previousCrops) :
                ToLowerCase(recommendations[i].name_en) #
                    ToLowerCase(previousCrops[j])

\* position of a returned record in the crop list
ListPosition(r) == CHOOSE k \in 1..Len(mockCrops) : mockCrops[k].id = r.id

\* the crops the season / location filter and the rotation filter leave
EligibleCount ==
    Len(RotationFilter(SuitableCrops(mockCrops, pincode, month), previousCrops))

\* C4: calculateRecommendations returns exactly min(5, n) records, n the number
\* of crops left after the rotation filter, by non-increasing score (actualROI),
\* equal scores in crop-list order; with n = 0 it returns the empty list.
C4_TopFiveSorted ==
    called = "calc-done" =>
        /\ Len(recommendations) =
               (IF EligibleCount < 5 THEN EligibleCount ELSE 5)
        /\ \A i, j \in 1..Len(recommendations) :
               i < j =>
                   /\ Ge(recommendations[i].actualROI,
                         recommendations[j].actualROI)
                   /\ recommendations[i].actualROI =
                          recommendations[j].actualROI =>
                              ListPosition(recommendations[i]) <
                                  ListPosition(recommendations[j])

C4_Witness ==
    /\ called = "calc-done"
    /\ Len(previousCrops) > 0
    /\ Len(recommendations) = 4
    /\ Len(SuitableCrops(mockCrops, pincode, month)) = 5
    /\ \E i \in 1..3 : ListPosition(recommendations[i]) >
                           ListPosition(recommendations[i + 1])

\* the answer the same request gets with areaUnit = 'acres'
AcresRecommendations ==
    calculateRecommendations(pincode, farmArea, previousCrops, "acres", month)

AcresFinalRecommendations ==
    AiFinalRecommendations(aiResponse.recommendations, farmArea, "acres")

\* C5 as claimed: with areaUnit = 'hectares' totalInvestment and expectedReturn
\* are exactly 2.47 times those with 'acres', in calculateRecommendations and
\* in the area scaling of ai-crop-recommendations.
C5_ExactFactor ==
    /\ (called = "calc-done" /\ areaUnit = "hectares") =>
           /\ Len(recommendations) = Len(AcresRecommendations)
           /\ \A i \in 1..Len(recommendations) :
                  LET h == recommendations[i]
                      a == AcresRecommendations[i]
                  IN  /\ h.id = a.id
                      /\ h.totalInvestment =
                             Mul(HectareFactor, a.totalInvestment)
                      /\ h.expectedReturn =
                             Mul(HectareFactor, a.expectedReturn)
    /\ (called = "ai-done" /\ areaUnit = "hectares") =>
           /\ Len(finalRecommendations) = Len(AcresFinalRecommendations)
           /\ \A i \in 1..Len(finalRecommendations) :
                  LET h == finalRecommendations[i]
                      a == AcresFinalRecommendations[i]
                  IN  /\ h.id = a.id
                      /\ h.totalInvestment =
                             Mul(HectareFactor, a.totalInvestment)
                      /\ h.expectedReturn =
                             Mul(HectareFactor, a.expectedReturn)

\* the distance two figures rounded to whole numbers can be from the factor
RoundingSlack == Add(Half, Mul(HectareFactor, Half))

\* C5 amended: with 'hectares' the totals of calculateRecommendations are
\* exactly 2.47 times those with 'acres'; the totals of ai-crop-recommendations
\* are whole numbers, 2.47 times those with 'acres' only up to the rounding of
\* both figures (at most 0.5 + 2.47 * 0.5 away).
C5_FactorUpToRounding ==
    /\ (called = "calc-done" /\ areaUnit = "hectares") =>
           /\ Len(recommendations) = Len(AcresRecommendations)
           /\ \A i \in 1..Len(recommendations) :
                  LET h == recommendations[i]
                      a == AcresRecommendations[i]
                  IN  /\ h.id = a.id
                      /\ h.totalInvestment =
                             Mul(HectareFactor, a.totalInvestment)
                      /\ h.expectedReturn =
                             Mul(HectareFactor, a.expectedReturn)
    /\ (called = "ai-done" /\ areaUnit = "hectares") =>
           /\ Len(finalRecommendations) = Len(AcresFinalRecommendations)
           /\ \A i \in 1..Len(finalRecommendations) :
                  LET h == finalRecommendations[i]
                      a == AcresFinalRecommendations[i]
                  IN  /\ h.id = a.id
                      /\ h.totalInvestment.d = 1
                      /\ h.expectedReturn.d = 1
                      /\ Le(MathAbs(Sub(h.totalInvestment,
                                        Mul(HectareFactor, a.totalInvestment))),
                            RoundingSlack)
                      /\ Le(MathAbs(Sub(h.expectedReturn,
                                        Mul(HectareFactor, a.expectedReturn))),
                            RoundingSlack)

C5_Witness ==
    /\ called = "ai-done"
    /\ areaUnit = "hectares"
    /\ \E i \in 1..Len(finalRecommendations) :
           finalRecommendations[i].totalInvestment #
               Mul(HectareFactor, AcresFinalRecommendations[i].totalInvestment)

\* C25: every recommendation the ai-crop-recommendations function returns is
\* profitable on its final, area-scaled figures: profitAmount > 0 and
\* totalInvestment > 0, for every farmArea > 0 and either area unit.
C25_ReturnedAreProfitable ==
    called = "ai-done" =>
        \A i \in 1..Len(finalRecommendations) :
            /\ Gt(finalRecommendations[i].profitAmount, Zero)
            /\ Gt(finalRecommendations[i].totalInvestment, Zero)

\* C18: in every calendar month the current season is kharif for the months
\* 4 to 9 and rabi for the months 10 to 3, and this is the season that both
\* getCurrentSeason (inside calculateRecommendations) and the
\* ai-crop-recommendations function work out, so the two always agree.
C18_SeasonsAgree ==
    called \in {"calc-done", "ai-done"} =>
        /\ callSeason = (IF month \in 4..9 THEN "kharif" ELSE "rabi")
        /\ getCurrentSeason(month) = AiSeason(month)

-----------------------------------------------------------------------------
(* integrations/cropRecommendation/service.ts: the rule-based scorer *)

CROP_LABELS ==
    <<<<"r", "i", "c", "e">>,
      <<"m", "a", "i", "z", "e">>,
      <<"j", "u", "t", "e">>,
      <<"c", "o", "t", "t", "o", "n">>,
      <<"c", "o", "c", "o", "n", "u", "t">>,
      <<"p", "a", "p", "a", "y", "a">>,
      <<"o", "r", "a", "n", "g", "e">>,
      <<"a", "p", "p", "l", "e">>,
      <<"m", "u", "s", "k", "m", "e", "l", "o", "n">>,
      <<"w", "a", "t", "e", "r", "m", "e", "l", "o", "n">>,
      <<"g", "r", "a", "p", "e", "s">>,
      <<"m", "a", "n", "g", "o">>,
      <<"b", "a", "n", "a", "n", "a">>,
      <<"p", "o", "m", "e", "g", "r", "a", "n", "a", "t", "e">>,
      <<"l", "e", "n", "t", "i", "l">>,
      <<"b", "l", "a", "c", "k", "g", "r", "a", "m">>,
      <<"m", "u", "n", "g", "b", "e", "a", "n">>,
      <<"m", "o", "t", "h", "b", "e", "a", "n", "s">>,
      <<"p", "i", "g", "e", "o", "n", "p", "e", "a", "s">>,
      <<"k", "i", "d", "n", "e", "y", "b", "e", "a", "n", "s">>,
      <<"c", "h", "i", "c", "k", "p", "e", "a">>,
      <<"c", "o", "f", "f", "e", "e">>>>

\* Math.floor of a finite number
MathFloor(x) == Num(x.n \div x.d)

\* getDefaultCrops, every Math.random() of the call returning r (0 <= r < 1)
getDefaultCrops(r) ==
    [index \in 1..Len(CROP_LABELS) |->
        [id |-> index,
         name_en |-> CROP_LABELS[index],
         name_hi |-> "hi:default",
         season |-> <<"kharif", "rabi", "zaid">>[MathFloor(Mul(r, Num(3))).n + 1],
         soil_ph_min |-> Add(Num(5), Mul(r, One)),
         soil_ph_max |-> Add(Num(7), Mul(r, One)),
         temperature_min |-> Add(Num(15), Mul(r, Num(10))),
         temperature_max |-> Add(Num(30), Mul(r, Num(10))),
         rainfall_min |-> Add(Num(50), Mul(r, Num(50))),
         rainfall_max |-> Add(Num(150), Mul(r, Num(100))),
         investment_per_acre |-> Add(Num(20000), Mul(r, Num(30000))),
         expected_yield_per_acre |-> Add(Num(15), Mul(r, Num(20))),
         roi_percentage |-> Add(Num(30), Mul(r, Num(70))),
         current_price_per_kg |-> Add(Num(20), Mul(r, Num(40))),
         growing_states |->
            <<<<"P", "u", "n", "j", "a", "b">>, <<"H", "a", "r", "y", "a", "n", "a">>, <<"U", "P">>>>,
         image |-> "img:default",
         description_en |-> "en:default",
         description_hi |-> "hi:default"]]

\* Math.min(Math.max(v, 0), 1) when v is given
Clamp01(v) ==
    IF v # Undefined THEN MathMin(MathMax(v, Zero), One) ELSE Undefined

\* a normalizeParameters that divides each value by a round upper bound of
\* its domain before clamping
normalizeParameters_Scaled(params) ==
    LET scaled(v, top) == IF v # Undefined THEN Div(v, Num(top)) ELSE Undefined
    IN  Merge(params,
              [nitrogen |-> Clamp01(scaled(params.nitrogen, 200)),
               phosphorus |-> Clamp01(scaled(params.phosphorus, 200)),
               potassium |-> Clamp01(scaled(params.potassium, 250)),
               temperature |-> Clamp01(scaled(params.temperature, 50)),
               humidity |-> Clamp01(scaled(params.humidity, 100)),
               ph |-> Clamp01(scaled(params.ph, 10)),
               rainfall |-> Clamp01(scaled(params.rainfall, 400))])

normalizeParameters(params) ==
    Merge(params,
          [nitrogen |-> Clamp01(params.nitrogen),
           phosphorus |-> Clamp01(params.phosphorus),
           potassium |-> Clamp01(params.potassium),
           temperature |-> Clamp01(params.temperature),
           humidity |-> Clamp01(params.humidity),
           ph |-> Clamp01(params.ph),
           rainfall |-> Clamp01(params.rainfall)])

\* the extendedCrop getCropRecommendations builds before scoring
ExtendedCrop(crop) ==
    Merge(crop,
          [nutrientRequirements |->
              [nitrogen |-> Num(70), phosphorus |-> Num(75),
               potassium |-> Num(100)]])

\* crop.nutrientRequirements?.<field> || fallback
NutrientRequirement(crop, field, fallback) ==
    IF "nutrientRequirements" \in DOMAIN crop
       /\ crop.nutrientRequirements[field] \notin {Zero, NaN, Undefined}
    THEN crop.nutrientRequirements[field]
    ELSE fallback

\* 1 - Math.min(Math.abs(value - req) / req, 1) * 0.8
NutrientMatch(value, req) ==
    Sub(One, Mul(MathMin(Div(MathAbs(Sub(value, req)), req), One), Rat(8, 10)))

\* the three sub-scores of calculateNutrientScore
NutrientSubScores(params, crop) ==
    LET nReq == NutrientRequirement(crop, "nitrogen", Num(70))
        pReq == NutrientRequirement(crop, "phosphorus", Num(75))
        kReq == NutrientRequirement(crop, "potassium", Num(100))
    IN  [nScore |->
            IF params.nitrogen # Undefined
            THEN NutrientMatch(Mul(params.nitrogen, Num(140)), nReq)
            ELSE Half,
         pScore |->
            IF params.phosphorus # Undefined
            THEN NutrientMatch(Add(Mul(params.phosphorus, Num(145 - 5)), Num(5)),
                               pReq)
            ELSE Half,
         kScore |->
            IF params.potassium # Undefined
            THEN NutrientMatch(Add(Mul(params.potassium, Num(205 - 5)), Num(5)),
                               kReq)
            ELSE Half]

calculateNutrientScore(params, crop) ==
    LET sub == NutrientSubScores(params, crop)
    IN  Div(Add(Add(sub.nScore, sub.pScore), sub.kScore), Num(3))

Cereals == {<<"r", "i", "c", "e">>, <<"w", "h", "e", "a", "t">>, <<"m", "a", "i", "z", "e">>}
Pulses ==
    {<<"l", "e", "n", "t", "i", "l">>, <<"c", "h", "i", "c", "k", "p", "e", "a">>, <<"p", "i", "g", "e", "o", "n", "p", "e", "a", "s">>, <<"b", "l", "a", "c", "k", "g", "r", "a", "m">>, <<"m", "u", "n", "g", "b", "e", "a", "n">>}
Fruits ==
    {<<"a", "p", "p", "l", "e">>, <<"b", "a", "n", "a", "n", "a">>, <<"m", "a", "n", "g", "o">>, <<"g", "r", "a", "p", "e", "s">>, <<"o", "r", "a", "n", "g", "e">>, <<"p", "a", "p", "a", "y", "a">>, <<"c", "o", "c", "o", "n", "u", "t">>, <<"w", "a", "t", "e", "r", "m", "e", "l", "o", "n">>}
CashCrops == {<<"c", "o", "t", "t", "o", "n">>, <<"j", "u", "t", "e">>, <<"c", "o", "f", "f", "e", "e">>}

WeightTable(n, p, k, t, r, ph) ==
    [nitrogen |-> Rat(n, 100), phosphorus |-> Rat(p, 100),
     potassium |-> Rat(k, 100), temperature |-> Rat(t, 100),
     rainfall |-> Rat(r, 100), ph |-> Rat(ph, 100)]

\* the weights calculateCropSuitabilityScore uses for a crop
Weights(crop) ==
    LET cropType == ToLowerCase(crop.name_en)
    IN  IF cropType \in Cereals THEN WeightTable(20, 15, 15, 20, 20, 10)
        ELSE IF cropType \in Pulses THEN WeightTable(5, 20, 20, 20, 20, 15)
        ELSE IF cropType \in Fruits THEN WeightTable(15, 15, 20, 25, 20, 15)
        ELSE IF cropType \in CashCrops THEN WeightTable(15, 15, 15, 25, 20, 10)
        ELSE WeightTable(15, 15, 15, 20, 20, 15)

\* value * (max - min) + min
Denormalize(value, min, max) == Add(Mul(value, Sub(max, min)), min)

PhMin == Rat(35, 10)
PhMax == Rat(99, 10)
TempMin == Num(10)
TempMax == Num(44)
RainMin == Num(20)
RainMax == Num(298)

\* a piecewise score whose peak sits at the lower bound instead of the midpoint
RangeScore_PeakAtMin(value, min, max, k, c) ==
    LET range == Sub(max, min)
    IN  IF Ge(value, min) /\ Le(value, max)
        THEN Sub(One, Div(Mul(k, MathAbs(Sub(value, min))),
                          Div(range, Num(2))))
        ELSE Sub(c, Div(MathMin(MathAbs(Sub(value, min)),
                                MathAbs(Sub(value, max))), range))

\* the piecewise score of a physical value against a crop range:
\* inside, 1 - k * |v - mid| / (range / 2); outside, c - distance / range
RangeScore(value, min, max, k, c) ==
    LET mid == Div(Add(min, max), Num(2))
        range == Sub(max, min)
    IN  IF Ge(value, min) /\ Le(value, max)
        THEN Sub(One, Div(Mul(k, MathAbs(Sub(value, mid))),
                          Div(range, Num(2))))
        ELSE Sub(c, Div(MathMin(MathAbs(Sub(value, min)),
                                MathAbs(Sub(value, max))), range))

PhScore(params, crop) ==
    RangeScore(Denormalize(params.ph, PhMin, PhMax),
               crop.soil_ph_min, crop.soil_ph_max, Half, Half)

TempScore(params, crop) ==
    RangeScore(Denormalize(params.temperature, TempMin, TempMax),
               crop.temperature_min, crop.temperature_max, Half, Half)

RainScore(params, crop) ==
    RangeScore(Denormalize(params.rainfall, RainMin, RainMax),
               crop.rainfall_min, crop.rainfall_max, Rat(3, 10), Rat(7, 10))

\* a term that lets a negative sub-score through
RangeTerm_NoFloor(given, weight, subScore) ==
    IF given # Undefined THEN Mul(weight, subScore) ELSE Mul(weight, Half)

\* a term that scores the value without asking whether it was given
RangeTerm_NoGuard(given, weight, subScore) ==
    Mul(weight, MathMax(Zero, subScore))

\* what one of pH, temperature, rainfall adds to the score:
\* weight * Math.max(0, subScore) when given, weight * 0.5 when undefined
RangeTerm(given, weight, subScore) ==
    IF given # Undefined
    THEN Mul(weight, MathMax(Zero, subScore))
    ELSE Mul(weight, Half)

\* what nitrogen, phosphorus and potassium add to the score
NutrientTerm(params, crop) ==
    LET w == Weights(crop)
        sum == Add(Add(w.nitrogen, w.phosphorus), w.potassium)
    IN  IF params.nitrogen # Undefined \/ params.phosphorus # Undefined
           \/ params.potassium # Undefined
        THEN Mul(sum, calculateNutrientScore(params, crop))
        ELSE Mul(sum, Half)

\* calculateCropSuitabilityScore with what it computes on the way
SuitabilityParts(params, crop) ==
    LET w == Weights(crop)
        sub == NutrientSubScores(params, crop)
        phScore == PhScore(params, crop)
        tempScore == TempScore(params, crop)
        rainScore == RainScore(params, crop)
        phTerm == RangeTerm(params.ph, w.ph, phScore)
        tempTerm == RangeTerm(params.temperature, w.temperature, tempScore)
        rainTerm == RangeTerm(params.rainfall, w.rainfall, rainScore)
        nutrientTerm == NutrientTerm(params, crop)
    IN  [phScore |-> phScore, tempScore |-> tempScore, rainScore |-> rainScore,
         nScore |-> sub.nScore, pScore |-> sub.pScore, kScore |-> sub.kScore,
         phTerm |-> phTerm, tempTerm |-> tempTerm, rainTerm |-> rainTerm,
         nutrientTerm |-> nutrientTerm,
         score |-> Mul(Add(Add(Add(Add(Zero, phTerm), tempTerm), rainTerm),
                           nutrientTerm), Hundred)]

calculateCropSuitabilityScore(params, crop) ==
    SuitabilityParts(params, crop).score

-----------------------------------------------------------------------------
(* One call of normalizeParameters or of calculateCropSuitabilityScore *)

\* the normalised value whose physical value is v
NormalizedOf(v, min, max) == Div(Sub(v, min), Sub(max, min))

Midpoint(min, max) == Div(Add(min, max), Num(2))

\* values of one range dimension drawn for a crop: the midpoint, the lower
\* bound, points above and below the range, a raw physical value, and
\* undefined
RangeChoices(min, max, lo, hi, raw) ==
    {Undefined, raw,
     NormalizedOf(Midpoint(min, max), lo, hi),
     NormalizedOf(min, lo, hi)}
    \cup {NormalizedOf(Add(max, Mul(Rat(k, 4), Sub(max, min))), lo, hi) :
             k \in 1..OutSteps}
    \cup {NormalizedOf(Sub(min, Mul(Rat(k, 4), Sub(max, min))), lo, hi) :
             k \in 1..OutSteps}

ScoreCrops ==
    {mockCrops[i] : i \in 1..Len(mockCrops)}
    \cup {getDefaultCrops(Half)[12], getDefaultCrops(Half)[15]}

ParamChoices(crop) ==
    [nitrogen : {Undefined, Half, Num(50)},
     phosphorus : {Undefined, Half, Num(50)},
     potassium : {Undefined, Rat(95, 200)},
     temperature : RangeChoices(crop.temperature_min, crop.temperature_max,
                                TempMin, TempMax, Num(25)),
     humidity : {Undefined, Num(60)},
     ph : RangeChoices(crop.soil_ph_min, crop.soil_ph_max,
                       PhMin, PhMax, Rat(65, 10)),
     rainfall : RangeChoices(crop.rainfall_min, crop.rainfall_max,
                             RainMin, RainMax, Num(100))]

InitScore ==
    /\ variant = "ml"
    /\ IdleUi
    /\ IdleApp
    /\ IdleGet
    /\ IdleRecommend
    /\ sStage = "input"
    /\ sCrop \in ScoreCrops
    /\ sParams \in ParamChoices(sCrop)
    /\ normalizedParams = NoParams
    /\ scoredParams = NoParams
    /\ suitability = NoSuitability

NormalizeParameters ==
    /\ sStage = "input"
    /\ normalizedParams' = normalizeParameters(sParams)
    /\ sStage' = "normalized"
    /\ UNCHANGED <<sCrop, sParams, scoredParams, suitability>>

CalculateCropSuitabilityScore ==
    /\ sStage = "input"
    /\ scoredParams' = sParams
    /\ suitability' = SuitabilityParts(sParams, ExtendedCrop(sCrop))
    /\ sStage' = "scored"
    /\ UNCHANGED <<sCrop, sParams, normalizedParams>>

NextScore ==
    \/ NormalizeParameters /\ UNCHANGED <<recVars, uiVars, getVars, appVars>>
    \/ CalculateCropSuitabilityScore /\ UNCHANGED <<recVars, uiVars, getVars, appVars>>

SpecScore == InitScore /\ [][NextScore]_vars

-----------------------------------------------------------------------------
(* Claims about normalizeParameters and calculateCropSuitabilityScore *)

ParamNames ==
    {"nitrogen", "phosphorus", "potassium", "temperature", "humidity", "ph",
     "rainfall"}

\* the fixed domain of each parameter
DomainMin(f) ==
    CASE f = "nitrogen" -> Zero
      [] f = "phosphorus" -> Num(5)
      [] f = "potassium" -> Num(5)
      [] f = "temperature" -> TempMin
      [] f = "humidity" -> Num(15)
      [] f = "ph" -> PhMin
      [] f = "rainfall" -> RainMin

DomainMax(f) ==
    CASE f = "nitrogen" -> Num(140)
      [] f = "phosphorus" -> Num(145)
      [] f = "potassium" -> Num(205)
      [] f = "temperature" -> TempMax
      [] f = "humidity" -> Num(99)
      [] f = "ph" -> PhMax
      [] f = "rainfall" -> RainMax

\* C8: normalizeParameters maps each supplied raw value v of a parameter with
\* domain [min, max] to clamp((v - min) / (max - min), 0, 1).
C8_NormalizesOverDomain ==
    sStage = "normalized" =>
        \A f \in ParamNames :
            sParams[f] # Undefined =>
                normalizedParams[f] =
                    MathMin(MathMax(NormalizedOf(sParams[f], DomainMin(f),
                                                 DomainMax(f)), Zero), One)

OutsideRange(v, min, max) == Lt(v, min) \/ Gt(v, max)

InsideRange(v, min, max) == Ge(v, min) /\ Le(v, max)

\* one dimension of C11: outside the range the raw sub-score is below c and
\* the sub-score used, Math.max(0, raw), is in [0, c); inside it is at least c
OutsideScoresLess(given, v, min, max, raw, term, weight, c) ==
    /\ (given # Undefined /\ OutsideRange(v, min, max)) =>
           /\ Lt(raw, c)
           /\ Ge(MathMax(Zero, raw), Zero)
           /\ Lt(MathMax(Zero, raw), c)
           /\ term = Mul(weight, MathMax(Zero, raw))
           /\ Ge(term, Zero)
           /\ Lt(term, Mul(weight, c))
    /\ (given # Undefined /\ InsideRange(v, min, max)) => Ge(raw, c)

\* C11: for every physical value outside the crop's declared range in a
\* dimension, the sub-score used is never negative and is strictly less than
\* the smallest in-range sub-score of that dimension (0.5 for pH and
\* temperature, 0.7 for rainfall).
C11_OutsideScoresLess ==
    sStage = "scored" =>
        LET w == Weights(sCrop)
        IN  /\ OutsideScoresLess(scoredParams.ph,
                   Denormalize(scoredParams.ph, PhMin, PhMax),
                   sCrop.soil_ph_min, sCrop.soil_ph_max,
                   suitability.phScore, suitability.phTerm, w.ph, Half)
            /\ OutsideScoresLess(scoredParams.temperature,
                   Denormalize(scoredParams.temperature, TempMin, TempMax),
                   sCrop.temperature_min, sCrop.temperature_max,
                   suitability.tempScore, suitability.tempTerm,
                   w.temperature, Half)
            /\ OutsideScoresLess(scoredParams.rainfall,
                   Denormalize(scoredParams.rainfall, RainMin, RainMax),
                   sCrop.rainfall_min, sCrop.rainfall_max,
                   suitability.rainScore, suitability.rainTerm,
                   w.rainfall, Rat(7, 10))

\* pH far above the range (raw sub-score negative, floored), temperature just
\* below it, rainfall just above it
C11_Witness ==
    /\ sStage = "scored"
    /\ sCrop = Rice
    /\ scoredParams.ph = Rat(65, 10)
    /\ Lt(suitability.phScore, Zero)
    /\ suitability.phTerm = Zero
    /\ Denormalize(scoredParams.temperature, TempMin, TempMax) = Rat(65, 4)
    /\ suitability.tempScore = Rat(1, 4)
    /\ Denormalize(scoredParams.rainfall, RainMin, RainMax) = Num(2250)
    /\ suitability.rainScore = Rat(45, 100)

WeightSum(w) ==
    Add(Add(Add(w.ph, w.temperature), Add(w.rainfall, w.nitrogen)),
        Add(w.phosphorus, w.potassium))

\* C13: in each of the five weight tables (default, cereals, pulses, fruits,
\* cash crops) the six weights sum to at most 1, so the score returned never
\* exceeds 100.
C13_WeightsSumToAtMostOne ==
    sStage = "scored" =>
        /\ Le(WeightSum(Weights(sCrop)), One)
        /\ Le(suitability.score, Hundred)

\* the three nutrient sub-scores added each with its own weight
IndependentNutrients(w, sub) ==
    Add(Add(Mul(w.nitrogen, sub.nScore), Mul(w.phosphorus, sub.pScore)),
        Mul(w.potassium, sub.kScore))

\* 0.7 * score_so_far + 0.3 * min_nutrient_score
LimitedBy(soFar, minNutrient) ==
    Add(Mul(Rat(7, 10), soFar), Mul(Rat(3, 10), minNutrient))

\* C15: when the smallest of the N, P, K sub-scores is below 0.3 the score is
\* 0.7 * score_so_far + 0.3 * min_nutrient_score (score_so_far read with or
\* without the nutrient terms); otherwise the three nutrient sub-scores are
\* added to the weighted sum each with its own weight.
C15_LimitingFactor ==
    sStage = "scored" =>
        LET w == Weights(sCrop)
            ranges == Add(Add(suitability.phTerm, suitability.tempTerm),
                          suitability.rainTerm)
            weighted == Add(ranges, IndependentNutrients(w, suitability))
            minNutrient == MathMin(MathMin(suitability.nScore,
                                           suitability.pScore),
                                   suitability.kScore)
            total == Div(suitability.score, Hundred)
        IN  IF Lt(minNutrient, Rat(3, 10))
            THEN \/ total = LimitedBy(ranges, minNutrient)
                 \/ total = LimitedBy(weighted, minNutrient)
            ELSE total = weighted

\* normalised humidity values from 15 % to 99 %
HumidityProbes == {Zero, Rat(1, 4), Half, Rat(3, 4), One}

\* C16: when humidity is supplied it enters the score, so that for a fixed
\* crop some input differing only in humidity (inside the crop's humidity band
\* instead of far outside it, or the reverse) gets a different score.
C16_HumidityCounts ==
    (sStage = "scored" /\ scoredParams.humidity # Undefined) =>
        \E h \in HumidityProbes :
            calculateCropSuitabilityScore(
                [scoredParams EXCEPT !.humidity = h], ExtendedCrop(sCrop))
            # suitability.score

-----------------------------------------------------------------------------
(* calculateCropSuitabilityScore on crops whose range is a single point *)

RangeDims == {"ph", "temperature", "rainfall"}

\* the crop with the range of every dimension in dims set to one point, the
\* physical value of the normalised input 0.5
Collapse(crop, dims) ==
    LET ph == Denormalize(Half, PhMin, PhMax)
        temp == Denormalize(Half, TempMin, TempMax)
        rain == Denormalize(Half, RainMin, RainMax)
    IN  Merge(crop,
          [soil_ph_min |-> IF "ph" \in dims THEN ph ELSE crop.soil_ph_min,
           soil_ph_max |-> IF "ph" \in dims THEN ph ELSE crop.soil_ph_max,
           temperature_min |->
              IF "temperature" \in dims THEN temp ELSE crop.temperature_min,
           temperature_max |->
              IF "temperature" \in dims THEN temp ELSE crop.temperature_max,
           rainfall_min |->
              IF "rainfall" \in dims THEN rain ELSE crop.rainfall_min,
           rainfall_max |->
              IF "rainfall" \in dims THEN rain ELSE crop.rainfall_max])

ZeroWidthCrops ==
    {Collapse(mockCrops[i], dims) :
        i \in 1..Len(mockCrops), dims \in (SUBSET RangeDims) \ {{}}}

\* values drawn around the lower bound of a range: on it, one unit above, one
\* unit below, a raw physical value, and undefined
PointChoices(min, lo, hi, raw) ==
    {Undefined, raw, NormalizedOf(min, lo, hi),
     NormalizedOf(Add(min, One), lo, hi), NormalizedOf(Sub(min, One), lo, hi)}

ZeroWidthParamChoices(crop) ==
    [nitrogen : {Undefined, Half},
     phosphorus : {Half},
     potassium : {Rat(95, 200)},
     temperature : PointChoices(crop.temperature_min, TempMin, TempMax, Num(25)),
     humidity : {Undefined},
     ph : PointChoices(crop.soil_ph_min, PhMin, PhMax, Rat(65, 10)),
     rainfall : PointChoices(crop.rainfall_min, RainMin, RainMax, Num(100))]

InitZeroWidth ==
    /\ variant = "ml"
    /\ IdleUi
    /\ IdleApp
    /\ IdleGet
    /\ IdleRecommend
    /\ sStage = "input"
    /\ sCrop \in ZeroWidthCrops
    /\ sParams \in ZeroWidthParamChoices(sCrop)
    /\ normalizedParams = NoParams
    /\ scoredParams = NoParams
    /\ suitability = NoSuitability

SpecZeroWidth == InitZeroWidth /\ [][NextScore]_vars

\* one dimension of C12: on a range that is one point, the sub-score used,
\* Math.max(0, raw), is 1 on the point and 0 elsewhere
PointScores(given, v, min, max, raw) ==
    (given # Undefined /\ min = max) =>
        /\ IsFinite(MathMax(Zero, raw))
        /\ MathMax(Zero, raw) = IF v = min THEN One ELSE Zero

\* C12: for a crop whose range in a dimension has min = max, a value equal to
\* that point is scored 1 and any other value 0, and neither the sub-score nor
\* the total is NaN or infinite.
C12_PointRangeScores ==
    sStage = "scored" =>
        /\ PointScores(scoredParams.ph,
               Denormalize(scoredParams.ph, PhMin, PhMax),
               sCrop.soil_ph_min, sCrop.soil_ph_max, suitability.phScore)
        /\ PointScores(scoredParams.temperature,
               Denormalize(scoredParams.temperature, TempMin, TempMax),
               sCrop.temperature_min, sCrop.temperature_max,
               suitability.tempScore)
        /\ PointScores(scoredParams.rainfall,
               Denormalize(scoredParams.rainfall, RainMin, RainMax),
               sCrop.rainfall_min, sCrop.rainfall_max, suitability.rainScore)
        /\ IsFinite(suitability.score)

-----------------------------------------------------------------------------
(* The Results screen: three fetches, the effect that waits for them, and  *)
(* fetchAIRecommendations                                                  *)

\* processCropsForDisplay keeps the properties of the Crop interface
processCropsForDisplay(crops) ==
    [i \in 1..Len(crops) |->
        [id |-> crops[i].id,
         name_en |-> crops[i].name_en,
         name_hi |-> crops[i].name_hi,
         season |-> crops[i].season,
         soil_ph_min |-> crops[i].soil_ph_min,
         soil_ph_max |-> crops[i].soil_ph_max,
         temperature_min |-> crops[i].temperature_min,
         temperature_max |-> crops[i].temperature_max,
         rainfall_min |-> crops[i].rainfall_min,
         rainfall_max |-> crops[i].rainfall_max,
         investment_per_acre |-> crops[i].investment_per_acre,
         expected_yield_per_acre |-> crops[i].expected_yield_per_acre,
         roi_percentage |-> crops[i].roi_percentage,
         current_price_per_kg |-> crops[i].current_price_per_kg,
         growing_states |-> crops[i].growing_states,
         image |-> crops[i].image,
         description_en |-> crops[i].description_en,
         description_hi |-> crops[i].description_hi]]

\* what getCropRecommendations(cropParams, mockCrops) resolves with: every
\* crop of mockCrops, in the order the scores and Math.random() produce
MlRecommendations(order) ==
    processCropsForDisplay([i \in 1..Len(mockCrops) |-> mockCrops[order[i]]])

MlOrders == Permutations(1..Len(mockCrops))

Settled == {"ok", "failed"}

\* an effect guard that does not ask for the location
EffectGuard_WeatherAndSoil(l, w, s) == w # "null" /\ s # "null"

\* if (locationData && weatherData && soilData)
EffectGuard(l, w, s) == l # "null" /\ w # "null" /\ s # "null"

FallbackRecommendations ==
    calculateRecommendations(pincode, farmArea, previousCrops, areaUnit, month)

InitResults ==
    /\ called = "results"
    /\ month \in {1, 7}
    /\ pincode \in Pincodes
    /\ farmArea = One
    /\ areaUnit \in AreaUnits
    /\ previousCrops \in SeqsUpTo(PrevNames, 1)
    /\ aiResponse = NoAiResponse
    /\ recommendations = <<>>
    /\ finalRecommendations = <<>>
    /\ callSeason = ""
    /\ IdleScore
    /\ variant \in {"mock", "ml"}
    /\ IdleUi
    /\ IdleApp
    /\ IdleGet

\* both effects run after the first render: the three fetches start, and the
\* second effect finds every datum null
Mount ==
    /\ ~mounted
    /\ mounted' = TRUE
    /\ fetchStatus' = [f \in Fetches |-> "pending"]
    /\ UNCHANGED <<variant, locationData, weatherData, soilData, effectPending,
                   aiCalls, aiInFlight, recommendationsLoading,
                   aiRecommendations, aiSource>>

\* supabase.functions.invoke resolved without error: set...Data(data)
FetchSucceeds(f) ==
    /\ fetchStatus[f] = "pending"
    /\ fetchStatus' = [fetchStatus EXCEPT ![f] = "ok"]
    /\ locationData' = IF f = "location" THEN "data" ELSE locationData
    /\ weatherData' = IF f = "weather" THEN "data" ELSE weatherData
    /\ soilData' = IF f = "soil" THEN "data" ELSE soilData
    /\ effectPending' = TRUE
    /\ UNCHANGED <<variant, mounted, aiCalls, aiInFlight,
                   recommendationsLoading, aiRecommendations, aiSource>>

\* it resolved with an error, or threw: logged, no state is set
FetchFails(f) ==
    /\ fetchStatus[f] = "pending"
    /\ fetchStatus' = [fetchStatus EXCEPT ![f] = "failed"]
    /\ UNCHANGED <<variant, mounted, locationData, weatherData, soilData,
                   effectPending, aiCalls, aiInFlight, recommendationsLoading,
                   aiRecommendations, aiSource>>

\* the second effect runs after a render and its guard is false
EffectSkips ==
    /\ effectPending
    /\ ~EffectGuard(locationData, weatherData, soilData)
    /\ effectPending' = FALSE
    /\ UNCHANGED <<variant, mounted, fetchStatus, locationData, weatherData,
                   soilData, aiCalls, aiInFlight, recommendationsLoading,
                   aiRecommendations, aiSource>>

\* the effect calls fetchAIRecommendations of the earlier component, which has
\* no await: loading on, calculateRecommendations, loading off
EffectFetchesMock ==
    /\ effectPending
    /\ EffectGuard(locationData, weatherData, soilData)
    /\ variant = "mock"
    /\ effectPending' = FALSE
    /\ aiCalls' = aiCalls + 1
    /\ aiRecommendations' = FallbackRecommendations
    /\ aiSource' = "mock"
    /\ recommendationsLoading' = FALSE
    /\ UNCHANGED <<variant, mounted, fetchStatus, locationData, weatherData,
                   soilData, aiInFlight>>

\* the effect calls fetchAIRecommendations of the later component, which runs
\* up to await getCropRecommendations(cropParams, mockCrops)
EffectFetchesMl ==
    /\ effectPending
    /\ EffectGuard(locationData, weatherData, soilData)
    /\ variant = "ml"
    /\ effectPending' = FALSE
    /\ aiCalls' = aiCalls + 1
    /\ aiInFlight' = aiInFlight + 1
    /\ recommendationsLoading' = TRUE
    /\ UNCHANGED <<variant, mounted, fetchStatus, locationData, weatherData,
                   soilData, aiRecommendations, aiSource>>

\* getCropRecommendations resolved: its list is never empty for mockCrops, so
\* the edge function below it is not reached
MlResolves(order) ==
    /\ aiInFlight > 0
    /\ aiInFlight' = aiInFlight - 1
    /\ aiRecommendations' = MlRecommendations(order)
    /\ aiSource' = "ml"
    /\ recommendationsLoading' = FALSE
    /\ UNCHANGED <<variant, mounted, fetchStatus, locationData, weatherData,
                   soilData, effectPending, aiCalls>>

\* the try block threw: catch sets the fallback list, finally ends loading
MlPathThrows ==
    /\ aiInFlight > 0
    /\ aiInFlight' = aiInFlight - 1
    /\ aiRecommendations' = FallbackRecommendations
    /\ aiSource' = "fallback"
    /\ recommendationsLoading' = FALSE
    /\ UNCHANGED <<variant, mounted, fetchStatus, locationData, weatherData,
                   soilData, effectPending, aiCalls>>

NextResults ==
    \/ Mount /\ UNCHANGED <<recVars, scoreVars, getVars, appVars>>
    \/ \E f \in Fetches : FetchSucceeds(f) /\ UNCHANGED <<recVars, scoreVars, getVars, appVars>>
    \/ \E f \in Fetches : FetchFails(f) /\ UNCHANGED <<recVars, scoreVars, getVars, appVars>>
    \/ EffectSkips /\ UNCHANGED <<recVars, scoreVars, getVars, appVars>>
    \/ EffectFetchesMock /\ UNCHANGED <<recVars, scoreVars, getVars, appVars>>
    \/ EffectFetchesMl /\ UNCHANGED <<recVars, scoreVars, getVars, appVars>>
    \/ \E order \in MlOrders :
           MlResolves(order) /\ UNCHANGED <<recVars, scoreVars, getVars, appVars>>
    \/ MlPathThrows /\ UNCHANGED <<recVars, scoreVars, getVars, appVars>>

SpecResults == InitResults /\ [][NextResults]_vars

-----------------------------------------------------------------------------
(* Claims about the Results screen *)

\* nothing is left to run: the fetches have settled, no effect is scheduled
\* and no call of fetchAIRecommendations is awaiting
Quiescent ==
    /\ mounted
    /\ \A f \in Fetches : fetchStatus[f] \in Settled
    /\ ~effectPending
    /\ aiInFlight = 0

\* C6: for every outcome of the location, weather and soil fetches, the
\* request ends with recommendationsLoading false: once nothing is left to
\* run, the screen is no longer loading.
C6_LoadingEnds == Quiescent => recommendationsLoading = FALSE

\* C7: fetchAIRecommendations is never started while any of the location,
\* weather or soil fetches is still unsettled.
C7_StartsAfterAllSettled ==
    aiCalls > 0 => \A f \in Fetches : fetchStatus[f] \in Settled

C7_Witness ==
    /\ variant = "ml"
    /\ aiCalls = 1
    /\ aiInFlight = 1
    /\ recommendationsLoading
    /\ \A f \in Fetches : fetchStatus[f] = "ok"

\* the properties of the Crop interface (mockData.ts) and the four derived
\* financial properties that CropCard reads
CropFields == DOMAIN Wheat

FinancialFields ==
    {"totalInvestment", "expectedReturn", "profitAmount", "actualROI"}

\* C19: every record the Results screen stores as a recommendation, whichever
\* path produced it (getCropRecommendations, the ai-crop-recommendations
\* function or the calculateRecommendations fallback), carries totalInvestment,
\* expectedReturn, profitAmount and actualROI together with the original Crop
\* attributes.
C19_StoredRecordsCarryFinancials ==
    aiSource # "none" =>
        \A i \in 1..Len(aiRecommendations) :
            (CropFields \cup FinancialFields) \subseteq
                DOMAIN aiRecommendations[i]

-----------------------------------------------------------------------------
(* integrations/cropRecommendation/service.ts: getCropRecommendations *)

DefaultKey == <<"d", "e", "f", "a", "u", "l", "t">>

SeasonKeys ==
    {<<"w", "i", "n", "t", "e", "r">>,
     <<"s", "u", "m", "m", "e", "r">>,
     <<"m", "o", "n", "s", "o", "o", "n">>,
     DefaultKey}

\* the seasonalCrops table of getSeasonalityFactor, one entry per season key
seasonalCrops(key) ==
    IF key = <<"w", "i", "n", "t", "e", "r">> THEN
        (<<"w", "h", "e", "a", "t">> :> Rat(13, 10))
        @@ (<<"p", "o", "t", "a", "t", "o">> :> Rat(12, 10))
        @@ (<<"m", "u", "s", "t", "a", "r", "d">> :> Rat(12, 10))
        @@ (<<"p", "e", "a", "s">> :> Rat(12, 10))
        @@ (<<"d", "e", "f", "a", "u", "l", "t">> :> Rat(9, 10))
    ELSE IF key = <<"s", "u", "m", "m", "e", "r">> THEN
        (<<"r", "i", "c", "e">> :> Rat(12, 10))
        @@ (<<"m", "a", "i", "z", "e">> :> Rat(12, 10))
        @@ (<<"c", "o", "t", "t", "o", "n">> :> Rat(13, 10))
        @@ (<<"s", "u", "g", "a", "r", "c", "a", "n", "e">> :> Rat(12, 10))
        @@ (<<"d", "e", "f", "a", "u", "l", "t">> :> Rat(9, 10))
    ELSE IF key = <<"m", "o", "n", "s", "o", "o", "n">> THEN
        (<<"r", "i", "c", "e">> :> Rat(13, 10))
        @@ (<<"m", "a", "i", "z", "e">> :> Rat(12, 10))
        @@ (<<"s", "o", "y", "b", "e", "a", "n">> :> Rat(12, 10))
        @@ (<<"c", "o", "t", "t", "o", "n">> :> Rat(11, 10))
        @@ (<<"d", "e", "f", "a", "u", "l", "t">> :> Rat(9, 10))
    ELSE
        (DefaultKey :> Rat(10, 10))

\* getSeasonalityFactor that looks the season up as it was written
getSeasonalityFactor_NoLowerCase(season, cropName) ==
    IF season = NoSeason THEN One
    ELSE LET seasonData == IF season \in SeasonKeys
                               THEN seasonalCrops(season)
                               ELSE seasonalCrops(DefaultKey)
             name == ToLowerCase(cropName)
         IN  IF name \in DOMAIN seasonData THEN seasonData[name]
             ELSE seasonData[DefaultKey]

\* getSeasonalityFactor: 1.0 without a season; seasonalCrops[season
\* .toLowerCase()] || seasonalCrops['default'], then seasonData[cropName
\* .toLowerCase()] || seasonData['default'].  Every entry of the table is
\* truthy; keys inherited from Object.prototype are not modelled.
getSeasonalityFactor(season, cropName) ==
    IF season = NoSeason THEN One
    ELSE LET key == ToLowerCase(season)
             seasonData == IF key \in SeasonKeys
                               THEN seasonalCrops(key)
                               ELSE seasonalCrops(DefaultKey)
             name == ToLowerCase(cropName)
         IN  IF name \in DOMAIN seasonData THEN seasonData[name]
             ELSE seasonData[DefaultKey]

getSeasonalSuitabilityLabel(factor) ==
    IF Ge(factor, Rat(12, 10)) THEN "excellent"
    ELSE IF Ge(factor, Rat(11, 10)) THEN "good"
    ELSE IF Ge(factor, Rat(9, 10)) THEN "moderate"
    ELSE IF Ge(factor, Rat(8, 10)) THEN "poor"
    ELSE "unsuitable"

\* x || d for a number x: d when x is undefined, 0 or NaN
OrDefault(x, d) == IF x = Undefined \/ IsNaN(x) \/ x = Zero THEN d ELSE x

\* predictCrop: five rules, else the label Math.random() = r picks
predictCrop(f, r) ==
    IF Gt(f.rainfall, Num(200)) /\ Gt(f.temperature, Num(30)) THEN CROP_LABELS[1]
    ELSE IF Gt(f.nitrogen, Num(100)) /\ Gt(f.phosphorus, Num(100))
            /\ Gt(f.potassium, Num(100)) THEN CROP_LABELS[2]
    ELSE IF Lt(f.ph, Num(6)) /\ Gt(f.rainfall, Num(150)) THEN CROP_LABELS[3]
    ELSE IF Gt(f.temperature, Num(25)) /\ Lt(f.rainfall, Num(100)) THEN CROP_LABELS[4]
    ELSE IF Gt(f.temperature, Num(25)) /\ Gt(f.humidity, Num(80)) THEN CROP_LABELS[5]
    ELSE CROP_LABELS[MathFloor(Mul(r, Num(Len(CROP_LABELS)))).n + 1]

\* what get-soil-data answers with when it answers
SoilApiData ==
    [nitrogen |-> Num(120), phosphorus |-> Num(110), potassium |-> Num(105),
     ph |-> Rat(55, 10)]

SoilParamMissing(params) ==
    \/ params.nitrogen = Undefined
    \/ params.phosphorus = Undefined
    \/ params.potassium = Undefined
    \/ params.ph = Undefined

\* completeParams of getModelPredictions: soil values from the API when a
\* pincode is given and one is missing, else params or the defaults
CompleteParams(params, hasPincode) ==
    LET given(x, d) == IF x # Undefined THEN x ELSE d
        weather == [temperature |-> OrDefault(params.temperature, Num(25)),
                    humidity |-> OrDefault(params.humidity, Num(65)),
                    rainfall |-> OrDefault(params.rainfall, Num(100))]
    IN  IF hasPincode /\ SoilParamMissing(params)
        THEN Merge(weather,
                   [nitrogen |-> given(params.nitrogen, SoilApiData.nitrogen),
                    phosphorus |-> given(params.phosphorus, SoilApiData.phosphorus),
                    potassium |-> given(params.potassium, SoilApiData.potassium),
                    ph |-> given(params.ph, SoilApiData.ph)])
        ELSE Merge(weather,
                   [nitrogen |-> OrDefault(params.nitrogen, Num(50)),
                    phosphorus |-> OrDefault(params.phosphorus, Num(50)),
                    potassium |-> OrDefault(params.potassium, Num(50)),
                    ph |-> OrDefault(params.ph, Rat(65, 10))])

\* getModelPredictions asks the soil API only in its first branch
CallsSoilApi(params, hasPincode) == hasPincode /\ SoilParamMissing(params)

\* getModelPredictions throws when fetchSoilData does
ModelThrows(params, hasPincode, soil) ==
    CallsSoilApi(params, hasPincode) /\ soil = "failed"

\* a getModelPredictions that answers from the defaults when the soil fetch
\* fails
ModelPredictedCrop_DefaultsOnFailure(params, hasPincode, soil, r) ==
    ToLowerCase(predictCrop(CompleteParams(params, hasPincode), r))

\* modelPredictedCrop after the try / catch around getModelPredictions: the
\* lower-cased predicted label, or '' when fetchSoilData threw
ModelPredictedCrop(params, hasPincode, soil, r) ==
    IF ModelThrows(params, hasPincode, soil)
    THEN NoPrediction
    ELSE ToLowerCase(predictCrop(CompleteParams(params, hasPincode), r))

\* a clamp that keeps only the floor
ClampScore_NoCeiling(finalScore) == MathMax(finalScore, Zero)

\* Math.min(Math.max(finalScore, 0), 100)
ClampScore(finalScore) == MathMin(MathMax(finalScore, Zero), Hundred)

\* the local values of the scoredCrops map for one crop, Math.random() = r
ScoreFactors(normalized, season, crop, r, predicted) ==
    LET suitabilityScore ==
            calculateCropSuitabilityScore(normalized, ExtendedCrop(crop))
        randomFactor == Add(Rat(9, 10), Mul(r, Rat(2, 10)))
        seasonalityFactor == getSeasonalityFactor(season, crop.name_en)
        useModelPrediction == predicted # NoPrediction
        isPredicted ==
            useModelPrediction /\ ToLowerCase(crop.name_en) = predicted
        modelBoostFactor == IF isPredicted THEN Rat(15, 10) ELSE One
    IN  [baseScore |-> suitabilityScore,
         randomFactor |-> randomFactor,
         seasonalityFactor |-> seasonalityFactor,
         modelBoostFactor |-> modelBoostFactor,
         finalScore |-> Mul(Mul(Mul(suitabilityScore, randomFactor),
                                seasonalityFactor), modelBoostFactor),
         isModelRecommended |-> isPredicted]

\* the object the map returns for the crop
ScoredCrop(crop, f) ==
    Merge(crop,
          [suitabilityScore |-> ClampScore(f.finalScore),
           seasonalSuitability |-> getSeasonalSuitabilityLabel(f.seasonalityFactor),
           isModelRecommended |-> f.isModelRecommended])

\* x || 0
OrZero(x) == OrDefault(x, Zero)

\* scoredCrops.sort((a, b) => (b.suitabilityScore || 0) -
\* (a.suitabilityScore || 0)): descending, and stable, so a crop comes behind
\* every crop with a higher score and every earlier crop with the same score
SuitabilityRank(keys) ==
    [i \in DOMAIN keys |->
        1 + Cardinality({j \in DOMAIN keys :
                            \/ Lt(keys[i], keys[j])
                            \/ j < i /\ keys[j] = keys[i]})]

PlaceByRank(s, rank) ==
    [p \in 1..Len(s) |-> s[CHOOSE i \in 1..Len(s) : rank[i] = p]]

SortBySuitability(s) ==
    PlaceByRank(s, SuitabilityRank([i \in 1..Len(s) |->
                                       OrZero(s[i].suitabilityScore)]))

\* the value Math.random() returns for the i-th crop of the map
JitterDraw(plan, i) ==
    IF plan = "low" THEN Zero
    ELSE IF plan = "high" THEN Rat(3, 4)
    ELSE IF i % 2 = 1 THEN Rat(3, 4) ELSE Zero

\* the scoredCrops map: per crop, its local values
ScoredFactors(normalized, seasonOfParams, crops, jitter, predicted) ==
    [i \in 1..Len(crops) |->
        Merge(ScoreFactors(normalized, seasonOfParams, crops[i],
                           JitterDraw(jitter, i), predicted),
              [crop |-> crops[i]])]

\* what the call leaves behind once the crops are sorted
Returned(predicted, factors, sortedCrops) ==
    [prediction |-> predicted,
     factors |-> factors,
     sortedCrops |-> sortedCrops,
     result |-> processCropsForDisplay(sortedCrops)]

\* the sort and the return, given the local values of the map
SortAndReturn(predicted, factors) ==
    Returned(predicted, factors,
             SortBySuitability([i \in 1..Len(factors) |->
                                   ScoredCrop(factors[i].crop, factors[i])]))

\* the map, given normalizedParams, crops and modelPredictedCrop
ScoreAndReturn(params, normalized, crops, jitter, predicted) ==
    SortAndReturn(predicted,
                  ScoredFactors(normalized, params.season, crops, jitter,
                                predicted))

\* getCropRecommendations(params, availableCrops, pincode)
getCropRecommendations(params, availableCrops, hasPincode, soil, draw, jitter, r) ==
    LET normalized == IF ~SoilParamMissing(params)
                          THEN normalizeParameters(params)
                          ELSE params
        crops == IF Len(availableCrops) > 0 THEN availableCrops
                 ELSE getDefaultCrops(r)
    IN  Merge(ScoreAndReturn(params, normalized, crops, jitter,
                             ModelPredictedCrop(normalized, hasPincode, soil,
                                                draw)),
              [normalized |-> normalized,
               soilAsked |-> CallsSoilApi(normalized, hasPincode),
               complete |-> IF ModelThrows(normalized, hasPincode, soil)
                            THEN NoParams
                            ELSE CompleteParams(normalized, hasPincode)])

-----------------------------------------------------------------------------
(* One call of getCropRecommendations *)

GetSeasons ==
    {NoSeason,
     <<"w", "i", "n", "t", "e", "r">>,
     <<"S", "u", "m", "m", "e", "r">>,
     <<"m", "o", "n", "s", "o", "o", "n">>,
     <<"k", "h", "a", "r", "i", "f">>}

\* parameter sets: nothing known, the physical defaults of
\* formDataToCropParams, normalised mid-range values, normalised zeros, a
\* second set of physical values, the physical soil values alone, and three
\* partial sets of raw values
GetParamSets ==
    {NoParams,
     [nitrogen |-> Num(50), phosphorus |-> Num(50), potassium |-> Num(50),
      temperature |-> Num(25), humidity |-> Num(60), ph |-> Rat(65, 10),
      rainfall |-> Num(100)],
     [nitrogen |-> Half, phosphorus |-> Half, potassium |-> Rat(95, 200),
      temperature |-> Half, humidity |-> Half, ph |-> Rat(15, 32),
      rainfall |-> Half],
     [nitrogen |-> Zero, phosphorus |-> Zero, potassium |-> Zero,
      temperature |-> Zero, humidity |-> Zero, ph |-> Zero,
      rainfall |-> Zero],
     [nitrogen |-> Num(90), phosphorus |-> Num(42), potassium |-> Num(43),
      temperature |-> Num(21), humidity |-> Num(82), ph |-> Num(7),
      rainfall |-> Num(203)],
     [NoParams EXCEPT !.nitrogen = Num(50), !.phosphorus = Num(50),
                      !.potassium = Num(50), !.ph = Rat(65, 10)],
     [NoParams EXCEPT !.temperature = Num(32), !.rainfall = Num(250)],
     [NoParams EXCEPT !.temperature = Num(30), !.rainfall = Num(50),
                      !.ph = Half],
     [NoParams EXCEPT !.nitrogen = Num(120), !.phosphorus = Num(120),
                      !.potassium = Num(120)]}

GetParamChoices ==
    {Merge(p, [season |-> s]) : p \in GetParamSets, s \in GetSeasons}

AvailableLists ==
    {<<>>,
     mockCrops,
     <<Wheat>>,
     <<Rice, Cotton>>,
     mockCrops \o <<getDefaultCrops(Half)[12]>>}

LabelDraws == {Zero, Half}

InitGetCrops ==
    /\ variant = "ml"
    /\ IdleUi
    /\ IdleApp
    /\ IdleRecommend
    /\ IdleScore
    /\ gStage = "request"
    /\ gParams \in GetParamChoices
    /\ gAvailable \in AvailableLists
    /\ \/ gPincode = FALSE /\ gSoil = "none"
       \/ gPincode = TRUE /\ gSoil \in {"ok", "failed"}
    /\ gLabelDraw \in LabelDraws
    /\ gJitter \in {"low", "high", "mixed"}
    /\ gDefaultR \in (IF gAvailable = <<>> THEN {Zero, Half}
                      ELSE {Zero})
    /\ gNormalized = NoGetParams
    /\ gSoilAsked = FALSE
    /\ gComplete = NoParams
    /\ gPrediction = NoPrediction
    /\ gScored = <<>>
    /\ gSorted = <<>>
    /\ gResult = <<>>

GetCropRecommendations ==
    /\ gStage = "request"
    /\ \E out \in {getCropRecommendations(gParams, gAvailable, gPincode,
                                            gSoil, gLabelDraw, gJitter,
                                            gDefaultR)} :
           /\ gNormalized' = out.normalized
           /\ gSoilAsked' = out.soilAsked
           /\ gComplete' = out.complete
           /\ gPrediction' = out.prediction
           /\ gScored' = out.factors
           /\ gSorted' = out.sortedCrops
           /\ gResult' = out.result
    /\ gStage' = "done"
    /\ UNCHANGED <<gParams, gAvailable, gPincode, gSoil, gLabelDraw, gJitter,
                   gDefaultR>>

NextGetCrops ==
    GetCropRecommendations /\ UNCHANGED <<recVars, scoreVars, uiVars, appVars>>

SpecGetCrops == InitGetCrops /\ [][NextGetCrops]_vars

-----------------------------------------------------------------------------
(* Claims about getCropRecommendations *)

SeasonWord(tag) ==
    IF tag = "kharif" THEN <<"k", "h", "a", "r", "i", "f">>
    ELSE IF tag = "rabi" THEN <<"r", "a", "b", "i">>
    ELSE <<"z", "a", "i", "d">>

\* C17 as stated: the seasonal multiplier getCropRecommendations applies is
\* 1.1 when the crop's season tag equals the current season and 0.9
\* otherwise.
C17_TagDecidesMultiplier ==
    (gStage = "done" /\ gParams.season # NoSeason) =>
        \A i \in 1..Len(gScored) :
            gScored[i].seasonalityFactor =
                (IF SeasonWord(gScored[i].crop.season) = ToLowerCase(gParams.season)
                 THEN Rat(11, 10) ELSE Rat(9, 10))

\* the seasons getSeasonalityFactor has a table for, and the tenths it gives
\* the crops it names in each
TabledSeasons ==
    {<<"w", "i", "n", "t", "e", "r">>,
     <<"s", "u", "m", "m", "e", "r">>,
     <<"m", "o", "n", "s", "o", "o", "n">>}

TabledTenths ==
    {<<<<"w", "i", "n", "t", "e", "r">>, <<"w", "h", "e", "a", "t">>, 13>>,
     <<<<"w", "i", "n", "t", "e", "r">>, <<"p", "o", "t", "a", "t", "o">>, 12>>,
     <<<<"w", "i", "n", "t", "e", "r">>, <<"m", "u", "s", "t", "a", "r", "d">>, 12>>,
     <<<<"w", "i", "n", "t", "e", "r">>, <<"p", "e", "a", "s">>, 12>>,
     <<<<"s", "u", "m", "m", "e", "r">>, <<"r", "i", "c", "e">>, 12>>,
     <<<<"s", "u", "m", "m", "e", "r">>, <<"m", "a", "i", "z", "e">>, 12>>,
     <<<<"s", "u", "m", "m", "e", "r">>, <<"c", "o", "t", "t", "o", "n">>, 13>>,
     <<<<"s", "u", "m", "m", "e", "r">>, <<"s", "u", "g", "a", "r", "c", "a", "n", "e">>, 12>>,
     <<<<"m", "o", "n", "s", "o", "o", "n">>, <<"r", "i", "c", "e">>, 13>>,
     <<<<"m", "o", "n", "s", "o", "o", "n">>, <<"m", "a", "i", "z", "e">>, 12>>,
     <<<<"m", "o", "n", "s", "o", "o", "n">>, <<"s", "o", "y", "b", "e", "a", "n">>, 12>>,
     <<<<"m", "o", "n", "s", "o", "o", "n">>, <<"c", "o", "t", "t", "o", "n">>, 11>>}

MultiplierByTable(seasonOfParams, cropName) ==
    LET hits == {t \in TabledTenths :
                    /\ t[1] = ToLowerCase(seasonOfParams)
                    /\ t[2] = ToLowerCase(cropName)}
    IN  IF ToLowerCase(seasonOfParams) \notin TabledSeasons THEN One
        ELSE IF hits = {} THEN Rat(9, 10)
        ELSE Rat((CHOOSE t \in hits : TRUE)[3], 10)

\* C17, amended: the multiplier is 1.0 when params.season is missing or,
\* lower-cased, is none of winter, summer and monsoon; otherwise it is the
\* entry of the crop's lower-cased English name in that season's table, or
\* 0.9 when the crop is not in it.  The crop's season tag plays no part.
C17_TableDecidesMultiplier ==
    gStage = "done" =>
        \A i \in 1..Len(gScored) :
            gScored[i].seasonalityFactor =
                MultiplierByTable(gParams.season, gScored[i].crop.name_en)

\* a summer call, the season written with a capital, in which cotton (tag
\* kharif) gets 1.3 and wheat (tag rabi) gets 0.9
C17_Witness ==
    /\ gStage = "done"
    /\ gParams.season = <<"S", "u", "m", "m", "e", "r">>
    /\ \E i, j \in 1..Len(gScored) :
           /\ gScored[i].crop = Cotton
           /\ gScored[i].seasonalityFactor = Rat(13, 10)
           /\ gScored[j].crop = Wheat
           /\ gScored[j].seasonalityFactor = Rat(9, 10)

\* C20: getCropRecommendations returns at most 5 crops, ordered by
\* non-increasing final suitability score, for every availableCrops list; for
\* the empty list the 22 default crops are the ones scored.
C20_AtMostFiveSorted ==
    gStage = "done" =>
        /\ Len(gResult) <= 5
        /\ \A k \in 1..Len(gResult) : gResult[k].id = gSorted[k].id
        /\ \A i, j \in 1..Len(gSorted) :
               i < j => Ge(gSorted[i].suitabilityScore,
                           gSorted[j].suitabilityScore)
        /\ gAvailable = <<>> => Len(gScored) = Len(CROP_LABELS)

\* C24: if getModelPredictions throws (for example because the soil fetch
\* fails), getCropRecommendations does not throw: it still returns the
\* rule-based ranking of all candidate crops, and no crop receives the 1.5
\* model boost.
C24_ModelFailureFallsBack ==
    (gStage = "done" /\ ModelThrows(gNormalized, gPincode, gSoil)) =>
        /\ gPrediction = NoPrediction
        /\ Len(gResult) = Len(gScored)
        /\ \A k \in 1..Len(gResult) : gResult[k].id = gSorted[k].id
        /\ \A i \in 1..Len(gScored) :
               /\ gScored[i].modelBoostFactor = One
               /\ ~gScored[i].isModelRecommended
               /\ gScored[i].finalScore =
                      Mul(Mul(gScored[i].baseScore, gScored[i].randomFactor),
                          gScored[i].seasonalityFactor)

\* the soil fetch failed on a call that scores mockCrops, among them the crop
\* the model would have named from the values at hand
C24_Witness ==
    /\ gStage = "done"
    /\ ModelThrows(gNormalized, gPincode, gSoil)
    /\ gAvailable = mockCrops
    /\ Len(gResult) = Len(mockCrops)
    /\ \E i \in 1..Len(gScored) :
           ToLowerCase(gScored[i].crop.name_en) =
               ToLowerCase(predictCrop(CompleteParams(gNormalized, gPincode),
                                       gLabelDraw))

\* C27: every numeric parameter that getCropRecommendations passes to
\* calculateCropSuitabilityScore lies in [0, 1], whichever subset of the
\* seven parameters the caller supplied.
C27_ScorerParamsInUnitInterval ==
    gStage = "done" =>
        \A f \in ParamNames :
            gNormalized[f] # Undefined =>
                Ge(gNormalized[f], Zero) /\ Le(gNormalized[f], One)

\* C22: getModelPredictions calls the soil API if and only if a pincode is
\* given and at least one of nitrogen, phosphorus, potassium and ph is
\* undefined; every parameter value its caller supplied (0 included) reaches
\* the model unchanged, and only the missing ones are filled in.
C22_SuppliedValuesReachModel ==
    gStage = "done" =>
        /\ gSoilAsked <=> (gPincode /\ SoilParamMissing(gNormalized))
        /\ ~ModelThrows(gNormalized, gPincode, gSoil) =>
               \A f \in ParamNames :
                   gNormalized[f] # Undefined => gComplete[f] = gNormalized[f]

\* the parameters a set supplies, and the sets the claim C28 speaks about
Supplied(p) == {f \in ParamNames : p[f] # Undefined}

AllAtLeastOne(p) == \A f \in Supplied(p) : Ge(p[f], One)

SoilAndAtLeastOne(p) == ~SoilParamMissing(p) /\ AllAtLeastOne(p)

\* the base score the call would compute for the crop from the set q
BaseScoreFrom(q, crop) ==
    calculateCropSuitabilityScore(normalizeParameters(q), ExtendedCrop(crop))

\* C28 as stated: when nitrogen, phosphorus, potassium and ph are all
\* supplied, the base suitability score of a crop is the same for any two
\* parameter sets whose numeric values are all >= 1.
C28_SameBaseScoreAboveOne ==
    (gStage = "done" /\ SoilAndAtLeastOne(gParams)) =>
        \A q \in GetParamSets :
            SoilAndAtLeastOne(q) =>
                \A i \in 1..Len(gScored) :
                    gScored[i].baseScore = BaseScoreFrom(q, gScored[i].crop)

\* C28, amended: ... for any two parameter sets that supply the same
\* parameters and whose numeric values are all >= 1.
C28_SameBaseScoreSameSupplied ==
    (gStage = "done" /\ SoilAndAtLeastOne(gParams)) =>
        \A q \in GetParamSets :
            (SoilAndAtLeastOne(q) /\ Supplied(q) = Supplied(gParams)) =>
                \A i \in 1..Len(gScored) :
                    gScored[i].baseScore = BaseScoreFrom(q, gScored[i].crop)

\* the physical defaults of formDataToCropParams were scored, and another
\* complete set of physical values is there to compare with
C28_Witness ==
    /\ gStage = "done"
    /\ gParams.nitrogen = Num(50)
    /\ gParams.temperature = Num(25)
    /\ gParams.ph = Rat(65, 10)
    /\ gParams.rainfall = Num(100)
    /\ gAvailable = mockCrops
    /\ \E q \in GetParamSets :
           /\ SoilAndAtLeastOne(q)
           /\ Supplied(q) = Supplied(gParams)
           /\ q.nitrogen # gParams.nitrogen
           /\ q.temperature # gParams.temperature

-----------------------------------------------------------------------------
(* The Index page and its Landing form *)

MaxSubmits == 2

Digits == {"0", "1", "2", "3", "4", "5", "6", "7", "8", "9"}

\* e.target.value.replace(/\D/g, '').slice(0, 6)
PincodeInput(typed) ==
    LET IsDigit(c) == c \in Digits
        digits == SelectSeq(typed, IsDigit)
    IN  SubSeq(digits, 1, IF Len(digits) < 6 THEN Len(digits) ELSE 6)

\* the key of locationMap a pincode spells
PincodeText(chars) ==
    IF chars = <<"1", "4", "1", "0", "0", "1">> THEN "141001"
    ELSE IF chars = <<"4", "0", "0", "0", "0", "1">> THEN "400001"
    ELSE "unlisted"

\* Math.max(0.1, parseFloat(e.target.value) || 0)
FarmAreaInput(parsed) == MathMax(Rat(1, 10), OrDefault(parsed, Zero))

\* handleCropSelect without the limit of three
handleCropSelect_NoLimit(previousCropsNow, value) ==
    IF ~ArrIncludes(previousCropsNow, value)
    THEN Append(previousCropsNow, value)
    ELSE previousCropsNow

\* handleCropSelect: the new previousCrops
handleCropSelect(previousCropsNow, value) ==
    IF Len(previousCropsNow) < 3 /\ ~ArrIncludes(previousCropsNow, value)
    THEN Append(previousCropsNow, value)
    ELSE previousCropsNow

\* removeCrop: previousCrops.filter(crop => crop !== cropToRemove)
removeCrop(previousCropsNow, cropToRemove) ==
    LET Keep(crop) == crop # cropToRemove
    IN  SelectSeq(previousCropsNow, Keep)

\* what the user may type into the pincode field
TypedPincodes ==
    {<<"1", "4", "1", "0", "0", "1">>,
     <<"1", "4", "1", "0">>,
     <<"4", "0", "-", "0", "0", " ", "0", "1">>,
     <<"9", "9", "9", "9", "9", "9", "9">>,
     <<"0", "1", "2", "3", "4", "5">>}

\* what parseFloat makes of the farm area field
TypedFarmAreas == {NaN, Zero, Rat(5, 2), Neg(Num(3))}

\* some values of indianCropsList
CropValues == {"wheat", "rice", "cotton", "maize"}

InitForm ==
    /\ variant = "ml"
    /\ IdleRecommend
    /\ IdleScore
    /\ IdleGet
    /\ IdleUi /\ IdleForm
    /\ IdleLoc /\ IdleParam /\ IdleChat

\* what the form and the page leave alone
besideForm == <<coreVars, locVars, paramVars, chatVars>>

ChangePincode(typed) ==
    /\ currentView = "landing"
    /\ step = 1
    /\ landingForm' = Merge(landingForm, [pincode |-> PincodeInput(typed)])
    /\ UNCHANGED <<currentView, formData, step, locationName, submissions>>

HandlePincodeSubmit ==
    /\ currentView = "landing"
    /\ step = 1
    /\ IF Len(landingForm.pincode) = 6
       THEN /\ locationName' =
                   getLocationFromPincode(PincodeText(landingForm.pincode)).district
            /\ step' = 2
       ELSE UNCHANGED <<locationName, step>>
    /\ UNCHANGED <<currentView, formData, landingForm, submissions>>

ChangeFarmArea(parsed) ==
    /\ currentView = "landing"
    /\ step = 2
    /\ landingForm' = Merge(landingForm, [farmArea |-> FarmAreaInput(parsed)])
    /\ UNCHANGED <<currentView, formData, step, locationName, submissions>>

ChangeAreaUnit(unit) ==
    /\ currentView = "landing"
    /\ step = 2
    /\ landingForm' = Merge(landingForm, [areaUnit |-> unit])
    /\ UNCHANGED <<currentView, formData, step, locationName, submissions>>

\* the handler reads formData.previousCrops of the last render; React renders
\* after every input event, so that is the current state
HandleCropSelect(value) ==
    /\ currentView = "landing"
    /\ step = 2
    /\ landingForm' =
           Merge(landingForm,
                 [previousCrops |->
                     handleCropSelect(landingForm.previousCrops, value)])
    /\ UNCHANGED <<currentView, formData, step, locationName, submissions>>

\* the remove button exists for the crops listed
RemoveCrop(cropToRemove) ==
    /\ currentView = "landing"
    /\ step = 2
    /\ ArrIncludes(landingForm.previousCrops, cropToRemove)
    /\ landingForm' =
           Merge(landingForm,
                 [previousCrops |->
                     removeCrop(landingForm.previousCrops, cropToRemove)])
    /\ UNCHANGED <<currentView, formData, step, locationName, submissions>>

\* handleFinalSubmit calls onSubmit(formData), which is Index's
\* handleFormSubmit; Landing is unmounted and its state discarded
HandleFormSubmit ==
    /\ currentView = "landing"
    /\ step = 2
    /\ submissions < MaxSubmits
    /\ formData' = landingForm
    /\ currentView' = "results"
    /\ step' = 1
    /\ landingForm' = InitialLandingForm
    /\ locationName' = NoLocationName
    /\ submissions' = submissions + 1

\* a handleBackToLanding that leaves the form data in place
HandleBackToLanding_KeepsFormData ==
    /\ currentView = "results"
    /\ formData # Null
    /\ currentView' = "landing"
    /\ UNCHANGED <<formData, step, landingForm, locationName, submissions>>

\* Results is rendered only with form data; its onBack is handleBackToLanding
HandleBackToLanding ==
    /\ currentView = "results"
    /\ formData # Null
    /\ currentView' = "landing"
    /\ formData' = Null
    /\ UNCHANGED <<step, landingForm, locationName, submissions>>

NextForm ==
    \/ \E typed \in TypedPincodes : ChangePincode(typed) /\ UNCHANGED besideForm
    \/ HandlePincodeSubmit /\ UNCHANGED besideForm
    \/ \E parsed \in TypedFarmAreas : ChangeFarmArea(parsed) /\ UNCHANGED besideForm
    \/ \E unit \in AreaUnits : ChangeAreaUnit(unit) /\ UNCHANGED besideForm
    \/ \E value \in CropValues : HandleCropSelect(value) /\ UNCHANGED besideForm
    \/ \E crop \in CropValues : RemoveCrop(crop) /\ UNCHANGED besideForm
    \/ HandleFormSubmit /\ UNCHANGED besideForm
    \/ HandleBackToLanding /\ UNCHANGED besideForm

SpecForm == InitForm /\ [][NextForm]_vars

-----------------------------------------------------------------------------
(* Claims about the Landing form and the Index page *)

NoDuplicates(s) == \A i, j \in 1..Len(s) : i # j => s[i] # s[j]

\* C23: in the Landing form, after any sequence of handleCropSelect and
\* removeCrop calls, previousCrops holds between 0 and 3 entries with no
\* duplicates; a select that would exceed 3 or repeat an entry leaves the
\* list unchanged.
C23_AtMostThreeDistinct ==
    /\ Len(landingForm.previousCrops) <= 3
    /\ NoDuplicates(landingForm.previousCrops)
    /\ \A value \in CropValues :
           (\/ Len(landingForm.previousCrops) = 3
            \/ ArrIncludes(landingForm.previousCrops, value)) =>
               handleCropSelect(landingForm.previousCrops, value) =
                   landingForm.previousCrops

\* three crops are listed, after one was removed and another chosen in its
\* place, and one more crop is on offer
C23_Witness ==
    /\ step = 2
    /\ landingForm.previousCrops = <<"wheat", "cotton", "maize">>
    /\ ~ArrIncludes(landingForm.previousCrops, "rice")

\* C30: in the Index two-screen flow, after any sequence of handleFormSubmit
\* and handleBackToLanding, currentView = 'results' exactly when formData is
\* non-null, so Results is never rendered without form data and going back
\* always clears the form data.
C30_ResultsIffFormData ==
    (currentView = "results") <=> (formData # Null)

\* back on the landing screen after a submission, with the form data cleared
C30_Witness ==
    /\ submissions > 0
    /\ currentView = "landing"
    /\ formData = Null

-----------------------------------------------------------------------------
(* supabase/functions: the get-location function *)

\* the pincode of the request body as JSON gives it: no such property, null,
\* a string, or a number; text is String(value)
NoPincode == [type |-> "undefined", text |-> <<>>]

NullPincode == [type |-> "null", text |-> <<>>]

StringPincode(text) == [type |-> "string", text |-> text]

NumberPincode(text) == [type |-> "number", text |-> text]

\* !pincode
PincodeFalsy(p) ==
    \/ p.type \in {"undefined", "null"}
    \/ p.type = "string" /\ p.text = <<>>
    \/ p.type = "number" /\ p.text = <<"0">>

\* a test that accepts digits of any length
pincodeRegexTest_AnyLength(p) ==
    /\ p.text # <<>>
    /\ \A i \in 1..Len(p.text) : p.text[i] \in Digits

\* /^[1-9][0-9]{5}$/.test(pincode), on String(pincode)
pincodeRegexTest(p) ==
    /\ Len(p.text) = 6
    /\ p.text[1] \in Digits \ {"0"}
    /\ \A i \in 2..6 : p.text[i] \in Digits

\* regionMap, by region
regionMap ==
    [North |-> {"Punjab", "Haryana", "Uttar Pradesh", "Uttarakhand",
                "Himachal Pradesh", "Jammu and Kashmir", "Delhi", "Rajasthan"},
     West |-> {"Maharashtra", "Gujarat", "Goa", "Dadra and Nagar Haveli",
               "Daman and Diu"},
     South |-> {"Karnataka", "Tamil Nadu", "Kerala", "Andhra Pradesh",
                "Telangana", "Pondicherry"},
     East |-> {"West Bengal", "Bihar", "Jharkhand", "Odisha", "Sikkim"},
     Central |-> {"Madhya Pradesh", "Chhattisgarh"},
     Northeast |-> {"Assam", "Arunachal Pradesh", "Manipur", "Meghalaya",
                    "Mizoram", "Nagaland", "Tripura"}]

\* getRegionFromState
getRegionFromState(state) ==
    IF state \in regionMap.North THEN "North India"
    ELSE IF state \in regionMap.West THEN "West India"
    ELSE IF state \in regionMap.South THEN "South India"
    ELSE IF state \in regionMap.East THEN "East India"
    ELSE IF state \in regionMap.Central THEN "Central India"
    ELSE IF state \in regionMap.Northeast THEN "Northeast India"
    ELSE "India"

\* getDistrictFromName
getDistrictFromName(name, state) == name

\* the catch block's Response
ErrorResponse(message) == [status |-> 500, error |-> message]

\* the state the reverse geocoding gives: 'Unknown' unless the request
\* succeeded with a first entry that has a non-empty state
ReverseState(req) ==
    IF req.reverse = "failed" \/ req.reverse = "empty" \/ req.reverse = ""
    THEN "Unknown"
    ELSE req.reverse

\* the serve handler: the requests it makes and the Response it returns
getLocation(req) ==
    IF req.method = "OPTIONS"
    THEN [fetches |-> <<>>, response |-> [status |-> 200, body |-> "null"]]
    ELSE IF ~req.bodyIsJson
    THEN [fetches |-> <<>>,
          response |-> ErrorResponse("Unexpected end of JSON input")]
    ELSE IF PincodeFalsy(req.pincode)
    THEN [fetches |-> <<>>, response |-> ErrorResponse("Pincode is required")]
    ELSE IF ~pincodeRegexTest(req.pincode)
    THEN [fetches |-> <<>>,
          response |-> ErrorResponse("Invalid Indian pincode format")]
    ELSE IF ~req.apiKey
    THEN [fetches |-> <<>>,
          response |-> ErrorResponse("OpenWeather API key not configured")]
    ELSE IF req.geoStatus = 404
    THEN [fetches |-> <<"zip">>,
          response |->
              ErrorResponse("Pincode not found. Please check and try again.")]
    ELSE IF req.geoStatus # 200
    THEN [fetches |-> <<"zip">>,
          response |-> ErrorResponse("Failed to fetch location data")]
    ELSE [fetches |-> <<"zip", "reverse">>,
          response |->
              [status |-> 200,
               pincode |-> req.pincode,
               name |-> "Ludhiana",
               state |-> ReverseState(req),
               country |-> "IN",
               district |-> getDistrictFromName("Ludhiana", ReverseState(req)),
               region |-> getRegionFromState(ReverseState(req))]]

\* the pincodes a request body may carry
RequestPincodes ==
    {NoPincode, NullPincode, StringPincode(<<>>),
     StringPincode(<<"1", "4", "1", "0", "0", "1">>),
     StringPincode(<<"1", "4", "1", "0">>),
     StringPincode(<<"1", "4", "1", "0", "0", "1", "1">>),
     StringPincode(<<"0", "1", "2", "3", "4", "5">>),
     StringPincode(<<"1", "4", "1", "0", "0", "a">>),
     StringPincode(<<" ", "1", "4", "1", "0", "0", "1">>),
     StringPincode(<<"1", "4", "1", "0", "0", "1">> \o <<"\n">>),
     NumberPincode(<<"1", "4", "1", "0", "0", "1">>),
     NumberPincode(<<"1", "4", "1", "0">>),
     NumberPincode(<<"0">>)}

\* what the geocoding service answers to the zip request
GeoStatuses == {200, 404, 500}

\* what the reverse geocoding answers: a failure, an empty list, an entry
\* without a state, or an entry with one
ReverseAnswers == {"failed", "empty", "", "Punjab", "Puducherry"}

LocRequests ==
    [method : {"POST", "OPTIONS"}, bodyIsJson : BOOLEAN,
     pincode : RequestPincodes, apiKey : BOOLEAN, geoStatus : GeoStatuses,
     reverse : ReverseAnswers]

\* what a get-location request leaves alone
besideLoc == <<coreVars, formVars, paramVars, chatVars>>

InitGetLocation ==
    /\ variant = "ml"
    /\ IdleRecommend
    /\ IdleScore
    /\ IdleGet
    /\ IdleUi /\ IdleForm
    /\ IdleParam /\ IdleChat
    /\ locStage = "received"
    /\ locRequest \in LocRequests
    /\ locFetches = <<>>
    /\ locResponse = <<>>

ServeGetLocation ==
    /\ locStage = "received"
    /\ \E out \in {getLocation(locRequest)} :
          /\ locFetches' = out.fetches
          /\ locResponse' = out.response
    /\ locStage' = "answered"
    /\ UNCHANGED locRequest

NextGetLocation == ServeGetLocation /\ UNCHANGED besideLoc

SpecGetLocation == InitGetLocation /\ [][NextGetLocation]_vars

-----------------------------------------------------------------------------
(* Claims about the get-location function *)

\* exactly six digits, the first of them not 0
SixDigitPincode(text) ==
    /\ Len(text) = 6
    /\ \A i \in 1..Len(text) : text[i] \in Digits
    /\ text[1] # "0"

DescriptiveMessages ==
    {"Pincode is required", "Invalid Indian pincode format"}

\* C21: for every request whose pincode is missing or is not exactly six
\* digits with a non-zero first digit, the get-location function answers
\* with an error response carrying a descriptive message, and performs no
\* external geocoding request and no retry.
C21_BadPincodeRejectedWithoutFetch ==
    (/\ locStage = "answered"
     /\ locRequest.method = "POST"
     /\ \/ ~locRequest.bodyIsJson
        \/ ~SixDigitPincode(locRequest.pincode.text)) =>
        /\ locResponse.status = 500
        /\ locResponse.error # ""
        /\ locRequest.bodyIsJson =>
               locResponse.error \in DescriptiveMessages
        /\ locFetches = <<>>

\* a pincode of six digits beginning with 0 was answered, with the API key
\* configured and the geocoding service ready to answer
C21_Witness ==
    /\ locStage = "answered"
    /\ locRequest.method = "POST"
    /\ locRequest.bodyIsJson
    /\ locRequest.pincode = StringPincode(<<"0", "1", "2", "3", "4", "5">>)
    /\ locRequest.apiKey
    /\ locRequest.geoStatus = 200
    /\ locResponse.status = 500

-----------------------------------------------------------------------------
(* integrations/cropRecommendation/utils.ts: formDataToCropParams *)

\* rainfallMap, in the order of its keys
rainfallMap ==
    <<
      [state |-> <<"p", "u", "n", "j", "a", "b">>,
       kharif |-> 400, rabi |-> 100, zaid |-> 50],
      [state |-> <<"h", "a", "r", "y", "a", "n", "a">>,
       kharif |-> 350, rabi |-> 80, zaid |-> 40],
      [state |-> <<"u", "t", "t", "a", "r", " ", "p", "r", "a", "d", "e", "s", "h">>,
       kharif |-> 800, rabi |-> 120, zaid |-> 60],
      [state |-> <<"b", "i", "h", "a", "r">>,
       kharif |-> 1000, rabi |-> 150, zaid |-> 80],
      [state |-> <<"w", "e", "s", "t", " ", "b", "e", "n", "g", "a", "l">>,
       kharif |-> 1200, rabi |-> 200, zaid |-> 100],
      [state |-> <<"o", "d", "i", "s", "h", "a">>,
       kharif |-> 1100, rabi |-> 180, zaid |-> 90],
      [state |-> <<"m", "a", "d", "h", "y", "a", " ", "p", "r", "a", "d", "e", "s", "h">>,
       kharif |-> 900, rabi |-> 120, zaid |-> 60],
      [state |-> <<"g", "u", "j", "a", "r", "a", "t">>,
       kharif |-> 700, rabi |-> 100, zaid |-> 50],
      [state |-> <<"m", "a", "h", "a", "r", "a", "s", "h", "t", "r", "a">>,
       kharif |-> 1800, rabi |-> 150, zaid |-> 70],
      [state |-> <<"k", "a", "r", "n", "a", "t", "a", "k", "a">>,
       kharif |-> 1500, rabi |-> 200, zaid |-> 100],
      [state |-> <<"t", "a", "m", "i", "l", " ", "n", "a", "d", "u">>,
       kharif |-> 600, rabi |-> 400, zaid |-> 200],
      [state |-> <<"a", "n", "d", "h", "r", "a", " ", "p", "r", "a", "d", "e", "s", "h">>,
       kharif |-> 800, rabi |-> 150, zaid |-> 80],
      [state |-> <<"t", "e", "l", "a", "n", "g", "a", "n", "a">>,
       kharif |-> 750, rabi |-> 120, zaid |-> 60],
      [state |-> <<"k", "e", "r", "a", "l", "a">>,
       kharif |-> 2000, rabi |-> 300, zaid |-> 150],
      [state |-> <<"r", "a", "j", "a", "s", "t", "h", "a", "n">>,
       kharif |-> 400, rabi |-> 50, zaid |-> 30]>>

\* getSeasonalRainfallEstimate, in the month currentMonth
getSeasonalRainfallEstimate(location, currentMonth) ==
    IF ~location.given \/ location.state = <<>>
    THEN Hundred
    ELSE LET state == ToLowerCase(location.state)
             isKharif == currentMonth >= 6 /\ currentMonth <= 9
             isRabi == currentMonth >= 10 \/ currentMonth <= 2
             isZaid == currentMonth >= 3 /\ currentMonth <= 5
             Matches(i) == \/ StrIncludes(state, rainfallMap[i].state)
                           \/ StrIncludes(rainfallMap[i].state, state)
             matching == {i \in 1..Len(rainfallMap) : Matches(i)}
         IN  IF matching = {}
             THEN Hundred
             ELSE LET first == CHOOSE i \in matching :
                                   \A j \in matching : i <= j
                  IN  IF isKharif THEN Num(rainfallMap[first].kharif)
                      ELSE IF isRabi THEN Num(rainfallMap[first].rabi)
                      ELSE IF isZaid THEN Num(rainfallMap[first].zaid)
                      ELSE Hundred

\* defaultParams
defaultParams ==
    [nitrogen |-> Num(50), phosphorus |-> Num(50), potassium |-> Num(50),
     temperature |-> Num(25), humidity |-> Num(60), ph |-> Rat(13, 2),
     rainfall |-> Hundred]

\* addVariation, with r the value of its Math.random()
addVariation(value, range, r) ==
    LET variation == Mul(Mul(Sub(Mul(r, Num(2)), One), range), value)
    IN  Add(value, variation)

\* a JavaScript value used as a condition
Truthy(x) == x # Undefined /\ ~IsNaN(x) /\ x # Zero

\* x ?? d
Nullish(x, d) == IF x = Undefined THEN d ELSE x

DigitValue(c) ==
    CASE c = "0" -> 0 [] c = "1" -> 1 [] c = "2" -> 2 [] c = "3" -> 3
      [] c = "4" -> 4 [] c = "5" -> 5 [] c = "6" -> 6 [] c = "7" -> 7
      [] c = "8" -> 8 [] c = "9" -> 9

RECURSIVE DigitsValue(_, _)
DigitsValue(text, sofar) ==
    IF text = <<>> \/ Head(text) \notin Digits
    THEN sofar
    ELSE DigitsValue(Tail(text), 10 * sofar + DigitValue(Head(text)))

\* parseFloat of a text without sign, point or exponent: its leading digits
parseFloat(text) ==
    IF text = <<>> \/ Head(text) \notin Digits
    THEN NaN
    ELSE Num(DigitsValue(text, 0))

\* weatherData.forecast's defined rainfall figures
rainfallValues(weather) ==
    LET Defined(x) == x # Undefined
    IN  SelectSeq(weather.forecast, Defined)

RECURSIVE SumOf(_)
SumOf(values) ==
    IF values = <<>> THEN Zero ELSE Add(Head(values), SumOf(Tail(values)))

\* estimatedRainfall as the forecast block leaves it (lines 122 to 147)
RainfallAfterForecast(weather, draws) ==
    IF weather.given /\ rainfallValues(weather) # <<>>
    THEN addVariation(SumOf(rainfallValues(weather)), Rat(1, 10),
                      draws.rainForecast)
    ELSE addVariation(defaultParams.rainfall, Rat(1, 10), draws.rainDefault)

\* the test of line 150
UsesLocationEstimate(weather, location, draws) ==
    /\ RainfallAfterForecast(weather, draws) = defaultParams.rainfall
    /\ location.given

\* estimatedRainfall
estimatedRainfall(weather, location, currentMonth, draws) ==
    IF UsesLocationEstimate(weather, location, draws)
    THEN addVariation(getSeasonalRainfallEstimate(location, currentMonth),
                      Rat(3, 20), draws.rainLocation)
    ELSE RainfallAfterForecast(weather, draws)

\* moistureAdjustment
moistureAdjustment(soil, draws) ==
    IF soil.given /\ soil.moisture # Undefined
    THEN LET moistureDiff == MathAbs(Sub(soil.moisture, Num(60)))
             adjustment == MathMax(Rat(7, 10),
                                   Sub(One, Div(moistureDiff, Hundred)))
         IN  addVariation(adjustment, Rat(1, 20), draws.other)
    ELSE One

\* the soil part of the returned object
SoilPart(soil, draws) ==
    LET adjust == moistureAdjustment(soil, draws)
    IN  [ph |-> addVariation(Nullish(soil.ph, defaultParams.ph), Rat(3, 100),
                             draws.other),
         nitrogen |->
             addVariation(Mul(Nullish(soil.nitrogen, defaultParams.nitrogen),
                              adjust), Rat(2, 25), draws.other),
         phosphorus |->
             addVariation(Mul(Nullish(soil.phosphorus,
                                      defaultParams.phosphorus),
                              adjust), Rat(2, 25), draws.other),
         potassium |->
             addVariation(Mul(Nullish(soil.potassium, defaultParams.potassium),
                              adjust), Rat(2, 25), draws.other)]

\* formData.rainfall && ...
FormRainfallGiven(form) == form.given /\ form.text # <<>>

formDataToCropParams(form, weather, soil, location, currentMonth, draws) ==
    LET avgTemperature ==
            IF weather.given /\ Truthy(weather.temperature)
            THEN addVariation(weather.temperature, Rat(1, 20), draws.other)
            ELSE addVariation(defaultParams.temperature, Rat(1, 10),
                              draws.other)
        avgHumidity ==
            IF weather.given /\ Truthy(weather.humidity)
            THEN addVariation(weather.humidity, Rat(1, 20), draws.other)
            ELSE addVariation(defaultParams.humidity, Rat(1, 10), draws.other)
        withSoil == IF soil.given
                    THEN Merge(defaultParams, SoilPart(soil, draws))
                    ELSE defaultParams
        withWeather ==
            Merge(withSoil,
                  [temperature |-> avgTemperature,
                   humidity |-> avgHumidity,
                   rainfall |-> estimatedRainfall(weather, location,
                                                  currentMonth, draws)])
    IN  IF FormRainfallGiven(form)
        THEN Merge(withWeather,
                   [rainfall |-> addVariation(parseFloat(form.text),
                                              Rat(1, 50), draws.rainForm)])
        ELSE withWeather

\* formData.rainfall: absent, or the text of the field
FormRainfalls ==
    {[given |-> FALSE, text |-> <<>>],
     [given |-> TRUE, text |-> <<>>],
     [given |-> TRUE, text |-> <<"0">>],
     [given |-> TRUE, text |-> <<"2", "5", "0">>],
     [given |-> TRUE, text |-> <<"a", "b", "c">>]}

\* weatherData: absent; without forecast; with a forecast that has no
\* rainfall figure; with figures that add up to 100; with figures that do not
WeatherChoices ==
    {[given |-> FALSE, temperature |-> Undefined, humidity |-> Undefined,
      forecast |-> <<>>],
     [given |-> TRUE, temperature |-> Num(30), humidity |-> Num(70),
      forecast |-> <<>>],
     [given |-> TRUE, temperature |-> Zero, humidity |-> Undefined,
      forecast |-> <<Undefined, Undefined>>],
     [given |-> TRUE, temperature |-> Num(30), humidity |-> Num(70),
      forecast |-> <<Num(20), Undefined, Num(80)>>],
     [given |-> TRUE, temperature |-> Num(30), humidity |-> Num(70),
      forecast |-> <<Num(40), Num(10)>>]}

\* soilData: absent; complete; an object with no values
SoilChoices ==
    {[given |-> FALSE, ph |-> Undefined, nitrogen |-> Undefined,
      phosphorus |-> Undefined, potassium |-> Undefined,
      moisture |-> Undefined],
     [given |-> TRUE, ph |-> Num(7), nitrogen |-> Num(40),
      phosphorus |-> Num(30), potassium |-> Num(20), moisture |-> Num(50)],
     [given |-> TRUE, ph |-> Undefined, nitrogen |-> Undefined,
      phosphorus |-> Undefined, potassium |-> Undefined,
      moisture |-> Undefined]}

\* locationData: absent; without a state; with a state of the table, or not
LocationChoices ==
    {[given |-> FALSE, state |-> <<>>],
     [given |-> TRUE, state |-> <<>>],
     [given |-> TRUE, state |-> <<"P", "u", "n", "j", "a", "b">>],
     [given |-> TRUE, state |-> <<"K", "e", "r", "a", "l", "a">>],
     [given |-> TRUE, state |-> <<"G", "o", "a">>]}

Months == 1..12

\* the values of Math.random() drawn: one per addVariation call that bears
\* on the rainfall, and one for all the other calls
DrawChoices ==
    [rainDefault : {Zero, Half, Rat(3, 4)},
     rainForecast : {Half, Rat(3, 4)},
     rainLocation : {Half, Rat(3, 4)},
     rainForm : {Half, Rat(3, 4)},
     other : {Zero, Rat(3, 4)}]

\* what a call of formDataToCropParams leaves alone
besideParam == <<coreVars, formVars, locVars, chatVars>>

InitFormDataToCropParams ==
    /\ variant = "ml"
    /\ IdleRecommend
    /\ IdleScore
    /\ IdleGet
    /\ IdleUi /\ IdleForm
    /\ IdleLoc /\ IdleChat
    /\ pStage = "called"
    /\ pForm \in FormRainfalls
    /\ pWeather \in WeatherChoices
    /\ pSoil \in SoilChoices
    /\ pLocation \in LocationChoices
    /\ pMonth \in Months
    /\ pDraws \in DrawChoices
    /\ pResult = <<>>

FormDataToCropParams ==
    /\ pStage = "called"
    /\ pResult' = formDataToCropParams(pForm, pWeather, pSoil, pLocation,
                                       pMonth, pDraws)
    /\ pStage' = "returned"
    /\ UNCHANGED <<pForm, pWeather, pSoil, pLocation, pMonth, pDraws>>

NextFormDataToCropParams == FormDataToCropParams /\ UNCHANGED besideParam

SpecFormDataToCropParams ==
    InitFormDataToCropParams /\ [][NextFormDataToCropParams]_vars

-----------------------------------------------------------------------------
(* Claims about formDataToCropParams *)

\* the base value the stated precedence picks, and the variation applied to it
RainfallByPrecedence ==
    IF FormRainfallGiven(pForm)
    THEN addVariation(parseFloat(pForm.text), Rat(1, 50), pDraws.rainForm)
    ELSE IF pWeather.given /\ rainfallValues(pWeather) # <<>>
    THEN addVariation(SumOf(rainfallValues(pWeather)), Rat(1, 10),
                      pDraws.rainForecast)
    ELSE IF pLocation.given
    THEN addVariation(getSeasonalRainfallEstimate(pLocation, pMonth),
                      Rat(3, 20), pDraws.rainLocation)
    ELSE addVariation(defaultParams.rainfall, Rat(1, 10), pDraws.rainDefault)

\* C26: formDataToCropParams chooses the rainfall base value by precedence:
\* the form's rainfall when given; otherwise the sum of the forecast rainfall
\* when the forecast has at least one rainfall figure; otherwise the
\* location-and-season estimate whenever locationData is given; otherwise the
\* default 100; for every value the random variation can take.
C26_RainfallByPrecedence ==
    pStage = "returned" => pResult.rainfall = RainfallByPrecedence

-----------------------------------------------------------------------------
(* components: the chat of the Results screen *)

\* most entries of chatMessages a behaviour builds
MaxChat == 4

RECURSIVE TrimStart(_)
TrimStart(text) ==
    IF text # <<>> /\ Head(text) = " " THEN TrimStart(Tail(text)) ELSE text

RECURSIVE TrimEnd(_)
TrimEnd(text) ==
    IF text # <<>> /\ text[Len(text)] = " "
    THEN TrimEnd(SubSeq(text, 1, Len(text) - 1))
    ELSE text

\* String.prototype.trim, for blanks
Trim(text) == TrimEnd(TrimStart(text))

\* the content of the entry added when the invoke fails
ApologyText == <<"Sorry, I encountered an error. Please try again.">>

\* data.response of a successful invoke
ReplyText == <<"response">>

\* what the user may type into the chat field
TypedChatInputs ==
    {<<>>, <<" ">>, <<"h", "i">>, <<" ", "h", "i", " ">>, <<"o", "k">>}

\* how the invoke of agriculture-chatbot settles: with data, with an error
\* object, or by throwing
InvokeOutcomes == {"data", "error", "thrown"}

\* what the chat leaves alone
besideChat == <<coreVars, formVars, locVars, paramVars>>

InitChat ==
    /\ variant = "ml"
    /\ IdleRecommend
    /\ IdleScore
    /\ IdleGet
    /\ IdleUi /\ IdleForm
    /\ IdleLoc /\ IdleParam
    /\ IdleChat

\* the chat button
ToggleChatbot ==
    /\ showChatbot' = ~showChatbot
    /\ UNCHANGED <<chatMessages, chatInput, chatLoading, chatPending>>

\* the panel's close button
CloseChatbot ==
    /\ showChatbot
    /\ showChatbot' = FALSE
    /\ UNCHANGED <<chatMessages, chatInput, chatLoading, chatPending>>

\* the input's onChange; the input is disabled while chatLoading
ChangeChatInput(text) ==
    /\ showChatbot
    /\ ~chatLoading
    /\ chatInput' = text
    /\ UNCHANGED <<showChatbot, chatMessages, chatLoading, chatPending>>

\* handleChatSubmit up to its await
handleChatSubmit ==
    IF Trim(chatInput) = <<>>
    THEN UNCHANGED <<chatMessages, chatInput, chatLoading, chatPending>>
    ELSE /\ Len(chatMessages) + 2 <= MaxChat
         /\ chatInput' = <<>>
         /\ chatMessages' =
                Append(chatMessages,
                       [role |-> "user", content |-> Trim(chatInput)])
         /\ chatLoading' = TRUE
         /\ chatPending' = Trim(chatInput)

\* Enter in the input, which is disabled while chatLoading
PressEnter ==
    /\ showChatbot
    /\ ~chatLoading
    /\ handleChatSubmit
    /\ UNCHANGED showChatbot

\* the Send button, disabled while chatLoading or with a blank input
ClickSend ==
    /\ showChatbot
    /\ ~(chatLoading \/ Trim(chatInput) = <<>>)
    /\ handleChatSubmit
    /\ UNCHANGED showChatbot

\* a settling that leaves the loading flag set
ChatSettled_StaysLoading(outcome) ==
    /\ chatPending # <<>>
    /\ chatMessages' =
           Append(chatMessages,
                  [role |-> "assistant",
                   content |-> IF outcome = "data" THEN ReplyText
                               ELSE ApologyText])
    /\ chatPending' = <<>>
    /\ UNCHANGED <<showChatbot, chatInput, chatLoading>>

\* handleChatSubmit from its await on: try, catch and finally
ChatSettled(outcome) ==
    /\ chatPending # <<>>
    /\ chatMessages' =
           Append(chatMessages,
                  [role |-> "assistant",
                   content |-> IF outcome = "data" THEN ReplyText
                               ELSE ApologyText])
    /\ chatLoading' = FALSE
    /\ chatPending' = <<>>
    /\ UNCHANGED <<showChatbot, chatInput>>

NextChat ==
    \/ ToggleChatbot /\ UNCHANGED besideChat
    \/ CloseChatbot /\ UNCHANGED besideChat
    \/ \E text \in TypedChatInputs : ChangeChatInput(text) /\ UNCHANGED besideChat
    \/ PressEnter /\ UNCHANGED besideChat
    \/ ClickSend /\ UNCHANGED besideChat
    \/ \E outcome \in InvokeOutcomes : ChatSettled(outcome) /\ UNCHANGED besideChat

SpecChat == InitChat /\ [][NextChat]_vars

\* the invoke of an accepted submission settles
SpecChatLive ==
    /\ SpecChat
    /\ WF_vars(\E outcome \in InvokeOutcomes :
                   ChatSettled(outcome) /\ UNCHANGED besideChat)

-----------------------------------------------------------------------------
(* Claims about the chat *)

\* user, assistant, user, ...; the last entry is a user's exactly while the
\* reply is awaited
Alternates ==
    /\ \A i \in 1..Len(chatMessages) :
           chatMessages[i].role = (IF i % 2 = 1 THEN "user" ELSE "assistant")
    /\ \A i \in 1..Len(chatMessages) :
           chatMessages[i].role = "assistant" =>
               chatMessages[i].content \in {ReplyText, ApologyText}
    /\ chatLoading <=> (Len(chatMessages) % 2 = 1)

\* a step that accepts a submission
Accepts ==
    /\ Len(chatMessages') = Len(chatMessages) + 1
    /\ chatMessages'[Len(chatMessages')].role = "user"

\* a submission is accepted only while not loading and with a non-blank
\* input, whose trimmed text becomes the entry
AcceptedOnlyWhenIdle ==
    Accepts =>
        /\ ~chatLoading
        /\ Trim(chatInput) # <<>>
        /\ chatMessages' =
               Append(chatMessages,
                      [role |-> "user", content |-> Trim(chatInput)])

\* while loading the list changes only by the one assistant entry
OnlyTheReplyWhileLoading ==
    (chatLoading /\ chatMessages' # chatMessages) =>
        /\ Len(chatMessages') = Len(chatMessages) + 1
        /\ SubSeq(chatMessages', 1, Len(chatMessages)) = chatMessages
        /\ chatMessages'[Len(chatMessages')].role = "assistant"
        /\ ~chatLoading'

\* C29: in the Results chat, after any sequence of submissions and replies,
\* chatMessages strictly alternates user, assistant, user, ...: every
\* accepted non-blank submission is followed by exactly one assistant entry
\* (the reply, or the apology text on error), no submission is accepted while
\* chatLoading is true, and chatLoading eventually returns to false.
C29_ChatAlternates ==
    /\ []Alternates
    /\ [][AcceptedOnlyWhenIdle /\ OnlyTheReplyWhileLoading]_vars
    /\ (chatLoading ~> ~chatLoading)

\* two exchanges are complete, the first answered with the apology and the
\* second with the reply
C29_Witness ==
    /\ Len(chatMessages) = 4
    /\ chatMessages[2].content = ApologyText
    /\ chatMessages[4].content = ReplyText
    /\ ~chatLoading

=============================================================================
